---------------------------- MODULE Spec2Model ----------------------------
(***************************************************************************)
(* Save-Articles-Bot: the extraction / summarization pipeline, the fetcher *)
(* retry loop and the record store, modelled from the Python sources.      *)
(*                                                                         *)
(* Strings are sequences of one-character strings.  The input alphabet is  *)
(*   letters  a b c d k     (\w; "k" stands for one of the Hebrew keyword  *)
(*                           literals of AdvancedSummarizer, see Keywords) *)
(*   digit    5             (\w and \d)                                    *)
(*   "%"                    (not \w; a literal of important_keywords)      *)
(*   . ! ?                  (sentence terminators)                         *)
(*   " " and "\n"           (whitespace, \s)                               *)
(* All letters are lower case, so str.lower() is the identity on them.     *)
(***************************************************************************)
EXTENDS Integers, Sequences, FiniteSets, TLC

VARIABLES
    \* ---- summarizer (bot_advanced.AdvancedSummarizer, bot_optimized.SmartSummarizer,
    \*      bot.ReadLaterBot.summarize_text)
    text,        \* the body handed to summarize
    max_length,  \* the max_length argument
    fault,       \* TRUE: the try body raises, the except handler runs
    impl,        \* which summarizer produced the result: "none" before the call
    summary,     \* the returned string
    order,       \* original positions of the sentences the summary was joined from, in output order
    path,        \* the return statement that produced the result
    \* ---- extractor (bot_optimized.ContentExtractor, bot_advanced.SmartContentExtractor,
    \*      bot.ReadLaterBot.extract_content_fallback)
    page,        \* the parsed page handed to the extractor
    extractor,   \* which extractor produced the result: "none" before the call
    article,     \* the returned value
    \* ---- record store (the articles table of bot.py, bot_advanced_db.py, bot_optimized.py)
    articles,    \* the rows of the table
    next_id,     \* the id AUTOINCREMENT gives the next row
    clock,       \* CURRENT_TIMESTAMP, in seconds
    op,          \* the last store operation and its arguments
    result,      \* the rows the last operation returned
    removed,     \* the rows the last operation deleted
    dbimpl,      \* the program whose store this is: "bot" or "advanced_db"
    \* ---- bot_optimized: handle_url_optimized and ContentExtractor.extract_with_retry
    fpc,         \* where the handler is
    url,         \* the message text, stripped
    attempt,     \* the loop variable of extract_with_retry
    requests,    \* what each session.get of this call ended in
    sleeps,      \* the delays asyncio.sleep was called with in this call
    fetched,     \* the value extract_article_content returned
    reply,       \* the message the user sees
    url_cache,   \* bot.url_cache
    runs,        \* handler calls so far
    prog,        \* the program whose handler runs: "optimized" or "bot"
    fetches,     \* bot.py handle_url: the downloads of this call, [via, outcome]
    \* ---- OptimizedReadLaterBot.summarize_text and its cache
    article_cache, \* bot.article_cache: the summaries kept, [key, summary]
    stext,       \* the text of the last summarize_text call
    sresult,     \* what that call returned
    calls,       \* summarize_text calls so far
    \* ---- categorizers
    ctitle,      \* the title handed to the categorizer
    cbody,       \* the body handed to it
    cbody2,      \* the words of cbody with other whitespace between them
    cimpl,       \* which categorizer produced the result: "none" before the call
    category,    \* the category of (ctitle, cbody)
    category2,   \* the category of (ctitle, cbody2)
    \* ---- language detection
    sample,      \* the text handed to _detect_language
    detector,    \* which _detect_language produced the result: "none" before the call
    language,    \* the returned code
    \* ---- the URL caches of extract_content (bot_mega_advanced, bot_super_advanced)
    \*      and of extract_article_content (bot_optimized)
    ubot,        \* the program whose cache this is
    wall,        \* time.time(), in seconds
    ucache,      \* url_cache in dict order: [url, data, timestamp]
    ulog,        \* the extraction runs so far: [url, ok, at]; its index names its result
    ureturn,     \* the last call: [url, data, via, at]
    \* ---- bot_optimized: save_article, get_user_articles, delete_article as coroutines
    otable,      \* the rows of the articles table: [id, user_id]
    onext_id,    \* the id AUTOINCREMENT gives the next row
    list_cache,  \* the entries of bot.article_cache under the user_ keys: [user, list]
    tasks,       \* the calls suspended at an await: [kind, user, id, pc, rows, absent, present]
    olast,       \* the call that completed last, and what it returned
    struck,      \* the ids some delete_article call of their owner was made for
    gone,        \* the ids whose delete_article call has completed
    \* ---- bot_optimized: DatabaseManager and its connection pool
    connection_pool, \* self.connection_pool: the connections in it (they are alike)
    initialized, \* self._initialized
    pool_lock,   \* self.pool_lock: "free", or "close" while close() holds it
    opened,      \* the connections that are open
    ptasks,      \* the calls suspended at an await: [kind, pc, n, conn]
    pstage,      \* "open"; "closing" once close() was called; "closed" once it returned
    \* ---- bot.py: handle_message and button_callback
    user_states, \* the dict user_states: per user [kind, urls], kind "absent" for no key
    handled,     \* the URLs handle_url was called with, in order
    dlast        \* the handler that ran last: [handler, user, fields, branch, reply, raised]

sumVars == <<text, max_length, fault, impl, summary, order, path>>
extVars == <<page, extractor, article>>
dbVars  == <<articles, next_id, clock, op, result, removed, dbimpl>>
fetVars == <<fpc, url, attempt, requests, sleeps, fetched, reply, url_cache, runs, prog,
             fetches>>
cacheVars == <<article_cache, stext, sresult, calls>>
catVars == <<ctitle, cbody, cbody2, cimpl, category, category2>>
langVars == <<sample, detector, language>>
ucVars == <<ubot, wall, ucache, ulog, ureturn>>

baseVars == <<sumVars, extVars, dbVars, fetVars, cacheVars, catVars, langVars>>
osVars == <<otable, onext_id, list_cache, tasks, olast, struck, gone>>
poolVars == <<connection_pool, initialized, pool_lock, opened, ptasks, pstage>>
dlgVars == <<user_states, handled, dlast>>
moreVars == <<ucVars, osVars, poolVars, dlgVars>>

\* each part of the model leaves the variables of the other parts alone
SumFrame   == UNCHANGED <<extVars, dbVars, fetVars, cacheVars, catVars, langVars, moreVars>>
ExtFrame   == UNCHANGED <<sumVars, dbVars, fetVars, cacheVars, catVars, langVars, moreVars>>
StoreFrame == UNCHANGED <<sumVars, extVars, fetVars, cacheVars, catVars, langVars, moreVars>>
FetchFrame == UNCHANGED <<sumVars, extVars, dbVars, cacheVars, catVars, langVars, moreVars>>
\* the end of a handler, which saves: the store and article_cache are its own
SaveFrame  == UNCHANGED <<sumVars, extVars, catVars, langVars, stext, sresult, calls,
                          moreVars>>
CacheFrame == UNCHANGED <<sumVars, extVars, dbVars, fetVars, catVars, langVars, moreVars>>
CatFrame   == UNCHANGED <<sumVars, extVars, dbVars, fetVars, cacheVars, langVars, moreVars>>
LangFrame  == UNCHANGED <<sumVars, extVars, dbVars, fetVars, cacheVars, catVars, moreVars>>
UcFrame    == UNCHANGED <<baseVars, osVars, poolVars, dlgVars>>
OsFrame    == UNCHANGED <<baseVars, ucVars, poolVars, dlgVars>>
PoolFrame  == UNCHANGED <<baseVars, ucVars, osVars, dlgVars>>
DlgFrame   == UNCHANGED <<baseVars, ucVars, osVars, poolVars>>

-----------------------------------------------------------------------------
(* Characters and generic string helpers                                   *)

IsTerm(c)  == c \in {".", "!", "?"}
IsSpace(c) == c \in {" ", "\n"}
IsWord(c)  == c \in {"a", "b", "c", "d", "k", "5"}
IsDigit(c) == c = "5"

Rep(c, n) == [i \in 1..n |-> c]

Min2(a, b) == IF a <= b THEN a ELSE b
Max2(a, b) == IF a >= b THEN a ELSE b

\* s[:n]
Prefix(s, n) == SubSeq(s, 1, Min2(n, Len(s)))

RECURSIVE Concat(_)
Concat(ss) == IF ss = <<>> THEN <<>> ELSE Head(ss) \o Concat(Tail(ss))

\* sep.join(ss)
RECURSIVE Join(_, _)
Join(ss, sep) ==
    IF ss = <<>> THEN <<>>
    ELSE IF Len(ss) = 1 THEN ss[1]
    ELSE ss[1] \o sep \o Join(Tail(ss), sep)

\* first index >= i whose character is not whitespace (Len(s)+1 if none)
RECURSIVE SkipSpace(_, _)
SkipSpace(s, i) ==
    IF i > Len(s) \/ ~IsSpace(s[i]) THEN i ELSE SkipSpace(s, i + 1)

\* last index <= i whose character is not whitespace (0 if none)
RECURSIVE SkipSpaceBack(_, _)
SkipSpaceBack(s, i) ==
    IF i < 1 \/ ~IsSpace(s[i]) THEN i ELSE SkipSpaceBack(s, i - 1)

\* str.strip()
Strip(s) == SubSeq(s, SkipSpace(s, 1), SkipSpaceBack(s, Len(s)))

\* first index >= i whose character is not a terminator (Len(s)+1 if none)
RECURSIVE SkipTerm(_, _)
SkipTerm(s, i) ==
    IF i > Len(s) \/ ~IsTerm(s[i]) THEN i ELSE SkipTerm(s, i + 1)

\* first index >= i whose character is not a word character
SkipWord(s, i) ==
    IF \E j \in i..Len(s) : ~IsWord(s[j])
    THEN CHOOSE j \in i..Len(s) : ~IsWord(s[j]) /\ \A k \in i..(j - 1) : IsWord(s[k])
    ELSE Max2(i, Len(s) + 1)

\* needle in hay (substring test)
Contains(hay, needle) ==
    \E i \in 1..(Len(hay) - Len(needle) + 1) :
        SubSeq(hay, i, i + Len(needle) - 1) = needle

\* str.endswith
EndsWith(s, suf) ==
    Len(s) >= Len(suf) /\ SubSeq(s, Len(s) - Len(suf) + 1, Len(s)) = suf

\* str.rfind(c): 0-based index of the last c, -1 if none
RFind(s, c) ==
    IF \E i \in 1..Len(s) : s[i] = c
    THEN (CHOOSE i \in 1..Len(s) : s[i] = c /\ \A k \in (i + 1)..Len(s) : s[k] # c) - 1
    ELSE -1

(* The separator regexes.  SepEnd(kind, s, i) is the index of the last      *)
(* character of the separator match that starts at i, 0 if none starts     *)
(* there.                                                                  *)
(*   "sentence"  [.!?]+\s+   (bot_advanced / bot_optimized _split_sentences) *)
(*   "terms"     [.!?]+      (bot.extract_important_sentences)              *)
(*   "dot"       '.'         (str.split('.'))                               *)
SepEnd(kind, s, i) ==
    IF kind = "dot" THEN (IF s[i] = "." THEN i ELSE 0)
    ELSE IF ~IsTerm(s[i]) THEN 0
    ELSE LET t == SkipTerm(s, i)      \* first index after the terminator run
         IN  IF kind = "terms" THEN t - 1
             ELSE IF t <= Len(s) /\ IsSpace(s[t]) THEN SkipSpace(s, t) - 1
             ELSE 0

\* re.split / str.split: the pieces between the separator matches, empty pieces kept
\* (i: where the scan is; start: where the piece being read began)
RECURSIVE SplitScan(_, _, _, _)
SplitScan(kind, s, i, start) ==
    IF \E j \in i..Len(s) : SepEnd(kind, s, j) > 0
    THEN LET j == CHOOSE j \in i..Len(s) :
                      /\ SepEnd(kind, s, j) > 0
                      /\ \A k \in i..(j - 1) : SepEnd(kind, s, k) = 0
             e == SepEnd(kind, s, j)
         IN  << SubSeq(s, start, j - 1) >> \o SplitScan(kind, s, e + 1, e + 1)
    ELSE << SubSeq(s, start, Len(s)) >>

Split(kind, s) == SplitScan(kind, s, 1, 1)

\* [f(x) for x in ss if keep(x)] with f = strip and keep = len(strip) > minLen
RECURSIVE StripLonger(_, _)
StripLonger(ss, minLen) ==
    IF ss = <<>> THEN <<>>
    ELSE LET h == Strip(Head(ss))
         IN  (IF Len(h) > minLen THEN << h >> ELSE <<>>) \o StripLonger(Tail(ss), minLen)

\* re.findall(r'\b\w+\b', s): the maximal runs of word characters
RECURSIVE WordsFrom(_, _)
WordsFrom(s, i) ==
    IF \E j \in i..Len(s) : IsWord(s[j])
    THEN LET b == CHOOSE j \in i..Len(s) : IsWord(s[j]) /\ \A k \in i..(j - 1) : ~IsWord(s[k])
             e == SkipWord(s, b)
         IN  << SubSeq(s, b, e - 1) >> \o WordsFrom(s, e)
    ELSE <<>>
Words(s) == WordsFrom(s, 1)

\* number of elements of ws equal to w
Count(ws, w) == Cardinality({i \in 1..Len(ws) : ws[i] = w})

-----------------------------------------------------------------------------
(* Summarizers                                                             *)

\* bot_advanced.py:370 / bot_optimized.py:389: every stop word is written in Hebrew
\* letters, none of which is in the input alphabet, so no input word is one.
hebrew_stopwords == {}

\* bot_advanced.py:435: four Hebrew literals ("first", "main", "important", "central"),
\* each also a literal of important_keywords (bot.py:295-296): the letter k stands
\* for one such literal.
Keywords == { << "k" >> }

AdvMinSentenceLen == 10
OptMinSentenceLen == 20
BotMinSentenceLen == 20
SelectBuffer      == 50
MaxSelected       == 3
OptTopSentences   == 3
AdvShortLimit     == 2
OptShortLimit     == 3
BotMaxSentences   == 6
BotFallbackParts  == 4
BotFallbackMinLen == 10
DefaultMaxLength  == 300

\* the "summary unavailable" literal of bot.py:371 (13 characters, none of them in
\* the input alphabet)
SummaryUnavailable == Rep("x", 13)

Ellipsis == << ".", ".", "." >>
DotSpace == << ".", " " >>

\* word_freq.get(w): occurrences of w among the words of the full text, for the
\* words the table holds (not a stop word, longer than 2)
WordFreq(words, w) ==
    IF w \notin hebrew_stopwords /\ Len(w) > 2 THEN Count(words, w) ELSE 0

RECURSIVE FreqSum(_, _)
FreqSum(words, sw) ==
    IF sw = <<>> THEN 0 ELSE WordFreq(words, Head(sw)) + FreqSum(words, Tail(sw))

HasKeyword(s) == \E k \in Keywords : Contains(s, k)

(* Scores are kept as integers, 1000 times the Python float: the factors   *)
(* 1.5, 1.2 and 1.3 become 15, 12 and 13 and an absent factor becomes 10.  *)
Adv_sentence_score(sentences, words, p) ==
    FreqSum(words, Words(sentences[p]))
      * (IF 10 * (p - 1) < 3 * Len(sentences) THEN 15 ELSE 10)
      * (IF 15 < Len(sentences[p]) /\ Len(sentences[p]) < 150 THEN 12 ELSE 10)
      * (IF HasKeyword(sentences[p]) THEN 13 ELSE 10)

Adv_score_sentences(sentences, full_text) ==
    LET words == Words(full_text)
    IN  [p \in 1..Len(sentences) |->
            [s |-> sentences[p], score |-> Adv_sentence_score(sentences, words, p), pos |-> p]]

Opt_sentence_score(sentences, words, p) ==
    FreqSum(words, Words(sentences[p]))
      * (IF 10 * (p - 1) < 3 * Len(sentences) THEN 15 ELSE 10)
      * (IF 20 < Len(sentences[p]) /\ Len(sentences[p]) < 200 THEN 12 ELSE 10)
      * 10

Opt_score_sentences(sentences, full_text) ==
    LET words == Words(full_text)
    IN  [p \in 1..Len(sentences) |->
            [s |-> sentences[p], score |-> Opt_sentence_score(sentences, words, p), pos |-> p]]

RemoveAt(xs, i) == SubSeq(xs, 1, i - 1) \o SubSeq(xs, i + 1, Len(xs))

\* list.sort(key=score, reverse=True) / sorted(..., reverse=True): stable, so equal
\* scores keep their list order
RECURSIVE SortByScoreDesc(_)
SortByScoreDesc(xs) ==
    IF xs = <<>> THEN <<>>
    ELSE LET b == CHOOSE i \in 1..Len(xs) :
                      \A j \in 1..Len(xs) :
                          \/ xs[i].score > xs[j].score
                          \/ xs[i].score = xs[j].score /\ i <= j
         IN  << xs[b] >> \o SortByScoreDesc(RemoveAt(xs, b))

\* sort(key=pos) / sorted(key=pos)
RECURSIVE SortByPos(_)
SortByPos(xs) ==
    IF xs = <<>> THEN <<>>
    ELSE LET b == CHOOSE i \in 1..Len(xs) :
                      \A j \in 1..Len(xs) :
                          xs[i].pos < xs[j].pos \/ (xs[i].pos = xs[j].pos /\ i <= j)
         IN  << xs[b] >> \o SortByPos(RemoveAt(xs, b))

\* a variant of the loop below that ends at the first sentence that does not fit
RECURSIVE Var_select_until_misfit(_, _, _, _, _)
Var_select_until_misfit(sorted, i, selected, total_length, maxlen) ==
    IF i > Len(sorted) THEN selected
    ELSE IF total_length + Len(sorted[i].s) <= maxlen - SelectBuffer
         THEN LET sel2 == Append(selected, sorted[i])
              IN  IF Len(sel2) >= MaxSelected THEN sel2
                  ELSE Var_select_until_misfit(sorted, i + 1, sel2,
                                               total_length + Len(sorted[i].s), maxlen)
         ELSE selected

\* the for loop of _select_sentences (and of smart_summarize) over the score-sorted
\* list
RECURSIVE SelectLoop(_, _, _, _, _)
SelectLoop(sorted, i, selected, total_length, maxlen) ==
    IF i > Len(sorted) THEN selected
    ELSE IF total_length + Len(sorted[i].s) <= maxlen - SelectBuffer
         THEN LET sel2 == Append(selected, sorted[i])
              IN  IF Len(sel2) >= MaxSelected THEN sel2
                  ELSE SelectLoop(sorted, i + 1, sel2, total_length + Len(sorted[i].s), maxlen)
         ELSE SelectLoop(sorted, i + 1, selected, total_length, maxlen)

Adv_select_sentences(scored, maxlen) ==
    LET sorted   == SortByScoreDesc(scored)
        selected == SelectLoop(sorted, 1, <<>>, 0, maxlen)
    IN  IF selected # <<>> THEN selected
        ELSE IF sorted # <<>> THEN << sorted[1] >> ELSE <<>>

Sentences(xs) == [i \in 1..Len(xs) |-> xs[i].s]
Positions(xs) == [i \in 1..Len(xs) |-> xs[i].pos]

Adv_split_sentences(t) == StripLonger(Split("sentence", t), AdvMinSentenceLen)
Opt_split_sentences(t) == StripLonger(Split("sentence", t), OptMinSentenceLen)

\* the except branch shared by both classes: text.split('.')[:2] joined, stripped, + "."
SplitFallback(t) == Strip(Join(Prefix(Split("dot", t), 2), DotSpace)) \o << "." >>

\* the order in which the selected sentences are joined
Adv_join_order(selected) == SortByPos(selected)

Adv_summarize(t, maxlen, flt) ==
    IF flt THEN [summary |-> SplitFallback(t), order |-> <<>>, path |-> "except"]
    ELSE LET sentences == Adv_split_sentences(t)
         IN  IF Len(sentences) <= AdvShortLimit
             THEN [summary |-> Join(sentences, DotSpace),
                   order   |-> [i \in 1..Len(sentences) |-> i],
                   path    |-> "short"]
             ELSE LET selected == Adv_join_order(
                                    Adv_select_sentences(Adv_score_sentences(sentences, t), maxlen))
                      joined   == Join(Sentences(selected), DotSpace)
                  IN  IF Len(joined) <= maxlen
                      THEN [summary |-> joined, order |-> Positions(selected), path |-> "scored"]
                      ELSE [summary |-> Prefix(joined, maxlen) \o Ellipsis,
                            order   |-> Positions(selected), path |-> "truncated"]

MegaMinSentenceLen == 15

Mega_split_sentences(t) == StripLonger(Split("sentence", t), MegaMinSentenceLen)

Mega_sentence_score(sentences, words, p) ==
    FreqSum(words, Words(sentences[p]))
      * (IF 10 * (p - 1) < 3 * Len(sentences) THEN 15 ELSE 10)
      * (IF 20 < Len(sentences[p]) /\ Len(sentences[p]) < 150 THEN 12 ELSE 10)
      * 10

Mega_score_sentences(sentences, full_text) ==
    LET words == Words(full_text)
    IN  [p \in 1..Len(sentences) |->
            [s |-> sentences[p], score |-> Mega_sentence_score(sentences, words, p), pos |-> p]]

\* MegaAdvancedBot.smart_summarize(text, max_length): the steps of
\* AdvancedSummarizer.summarize in one body
Mega_smart_summarize(t, maxlen, flt) ==
    IF flt THEN [summary |-> SplitFallback(t), order |-> <<>>, path |-> "except"]
    ELSE LET sentences == Mega_split_sentences(t)
         IN  IF Len(sentences) <= AdvShortLimit
             THEN [summary |-> Join(sentences, DotSpace),
                   order   |-> [i \in 1..Len(sentences) |-> i],
                   path    |-> "short"]
             ELSE LET sorted   == SortByScoreDesc(Mega_score_sentences(sentences, t))
                      fitting  == SelectLoop(sorted, 1, <<>>, 0, maxlen)
                      selected == SortByPos(IF fitting # <<>> THEN fitting
                                            ELSE << sorted[1] >>)
                      joined   == Join(Sentences(selected), DotSpace)
                  IN  IF Len(joined) <= maxlen
                      THEN [summary |-> joined, order |-> Positions(selected), path |-> "scored"]
                      ELSE [summary |-> Prefix(joined, maxlen) \o Ellipsis,
                            order   |-> Positions(selected), path |-> "truncated"]

Opt_summarize(t, maxlen, flt) ==
    IF flt THEN [summary |-> SplitFallback(t), order |-> <<>>, path |-> "except"]
    ELSE LET sentences == Opt_split_sentences(t)
         IN  IF Len(sentences) <= OptShortLimit
             THEN [summary |-> Join(sentences, DotSpace),
                   order   |-> [i \in 1..Len(sentences) |-> i],
                   path    |-> "short"]
             ELSE LET top      == Prefix(SortByScoreDesc(Opt_score_sentences(sentences, t)),
                                         OptTopSentences)
                      selected == SortByPos(top)
                      joined   == Join(Sentences(selected), DotSpace)
                  IN  IF Len(joined) > maxlen
                      THEN [summary |-> Prefix(joined, maxlen) \o Ellipsis,
                            order   |-> Positions(selected), path |-> "truncated"]
                      ELSE [summary |-> joined, order |-> Positions(selected), path |-> "scored"]

(* bot.py: clean_text_for_summary.  The unwanted patterns and the reporter  *)
(* prefix are Hebrew phrases and the dash rule needs "-": none can match a  *)
(* text over the input alphabet.  What remains is                          *)
(*   re.sub(r'\n\s*\n', '\n', text); re.sub(r'\s+', ' ', text); strip()     *)
(* and the first substitution is subsumed by the second.                    *)
\* re.sub(r'\s+', ' ', s): of a run of whitespace the first character stays, as a
\* blank
CollapseSpace(s) ==
    LET Stays(i) == ~IsSpace(s[i]) \/ i = 1 \/ ~IsSpace(s[i - 1])
        ix       == SelectSeq([i \in 1..Len(s) |-> i], Stays)
    IN  [n \in 1..Len(ix) |-> IF IsSpace(s[ix[n]]) THEN " " ELSE s[ix[n]]]

clean_text_for_summary(t) == Strip(CollapseSpace(t))

\* len(s.split()): the number of maximal runs of non-whitespace characters
WordCount(s) ==
    Cardinality({i \in 1..Len(s) : ~IsSpace(s[i]) /\ (i = 1 \/ IsSpace(s[i - 1]))})

\* sentences.index(sentence): 0-based index of the first equal element
IndexOf(ss, x) == (CHOOSE i \in 1..Len(ss) : ss[i] = x /\ \A j \in 1..(i - 1) : ss[j] # x) - 1

\* bot.py:305-332.  Of important_keywords only "%" and the literal k stands for can
\* occur; the words of line 329 are Hebrew and cannot.
Bot_sentence_score(sentences, p) ==
    LET sentence == sentences[p]
        length   == WordCount(sentence)
    IN    (IF Contains(sentence, << "%" >>) THEN 2 ELSE 0)
        + (IF HasKeyword(sentence) THEN 2 ELSE 0)
        + (IF \E i \in 1..Len(sentence) : IsDigit(sentence[i]) THEN 1 ELSE 0)
        + Max2(0, 3 - IndexOf(sentences, sentence))
        + (IF 8 <= length /\ length <= 25 THEN 1 ELSE IF length > 30 THEN -1 ELSE 0)

RECURSIVE KeepPositive(_)
KeepPositive(xs) ==
    IF xs = <<>> THEN <<>>
    ELSE (IF Head(xs).score > 0 THEN << Head(xs) >> ELSE <<>>) \o KeepPositive(Tail(xs))

\* the order in which extract_important_sentences returns the sentences
Bot_result_order(scored) == SortByScoreDesc(scored)

extract_important_sentences(t, max_sentences) ==
    LET sentences == StripLonger(Split("terms", clean_text_for_summary(t)), BotMinSentenceLen)
        scored    == [p \in 1..Len(sentences) |->
                        [s |-> sentences[p], score |-> Bot_sentence_score(sentences, p), pos |-> p]]
    IN  Prefix(KeepPositive(Prefix(Bot_result_order(scored), max_sentences)), max_sentences)

\* a variant of the limit below that never looks for a period
Var_limit_raw_cut(joined, maxlen) ==
    IF Len(joined) > maxlen THEN Prefix(joined, maxlen) \o Ellipsis
    ELSE IF joined # <<>> /\ ~EndsWith(joined, << "." >>) THEN joined \o << "." >>
    ELSE joined

\* bot.py:376-390: the length limit and the closing period
Bot_limit(joined, maxlen) ==
    LET cut == IF Len(joined) > maxlen
               THEN LET c           == Prefix(joined, maxlen)
                        last_period == RFind(c, ".")
                    IN  IF 10 * last_period > 7 * maxlen
                        THEN Prefix(c, last_period + 1)
                        ELSE c \o Ellipsis
               ELSE joined
    IN  IF cut # <<>> /\ ~EndsWith(cut, << "." >>) /\ ~EndsWith(cut, Ellipsis)
        THEN cut \o << "." >> ELSE cut

Bot_summarize_text(t, maxlen, flt) ==
    IF flt THEN [summary |-> SummaryUnavailable, order |-> <<>>, path |-> "except"]
    ELSE LET important == extract_important_sentences(t, BotMaxSentences)
         IN  IF important = <<>>
             THEN LET parts == StripLonger(Prefix(Split("dot", clean_text_for_summary(t)),
                                                  BotFallbackParts), BotFallbackMinLen)
                      j     == Strip(Join(parts, DotSpace))
                      j2    == IF j # <<>> /\ ~EndsWith(j, << "." >>) THEN j \o << "." >> ELSE j
                  IN  [summary |-> IF j2 # <<>> THEN j2 ELSE SummaryUnavailable,
                       order |-> <<>>, path |-> "simple"]
             ELSE LET joined == Join(Sentences(important), DotSpace)
                      lim    == Bot_limit(joined, maxlen)
                  IN  [summary |-> IF lim # <<>> THEN lim ELSE SummaryUnavailable,
                       order   |-> Positions(important),
                       path    |-> IF Len(joined) > maxlen THEN "truncated" ELSE "scored"]

-----------------------------------------------------------------------------
(* Inputs of the summarizers: a text is a concatenation of at most          *)
(* MaxPieces pieces, each a sentence-like fragment with its separator.      *)

Words3(w1, w2, n) ==   \* n words alternating w1 w2, separated by single blanks
    Join([i \in 1..n |-> IF i % 2 = 1 THEN w1 ELSE w2], << " " >>)

Pieces ==
    { Words3(Rep("a", 3), Rep("b", 3), 6) \o << ".", " " >>,             \* 23 characters
      << "k", "k", "k" >> \o << " " >> \o Words3(Rep("c", 3), Rep("c", 3), 2) \o << "!", " " >>,  \* 11
      Words3(Rep("a", 3), Rep("d", 3), 8) \o << " ", "5", "%", "?", "\n" >>,  \* 34, 9 words
      Rep("b", 3) \o << ".", " " >>,                                     \* a fragment
      Rep("d", 22) \o << ".", "d", "d" >> \o << ".", ".", " ", " " >> }   \* a dot inside

MaxPieces == 4

RECURSIVE TextsOf(_)
TextsOf(n) ==
    IF n = 0 THEN { <<>> }
    ELSE LET shorter == TextsOf(n - 1)
         IN  shorter \cup { t \o p : t \in shorter, p \in Pieces }

\* bodies of one fragment that end with their terminator
SingleSentences == { Strip(p) : p \in Pieces }

Texts == TextsOf(MaxPieces) \cup SingleSentences

MaxLengths == { 20, 100, DefaultMaxLength }

NoResult == [summary |-> <<>>, order |-> <<>>, path |-> "none"]

-----------------------------------------------------------------------------
(* Page texts.  The text of an element is kept run-length encoded: a        *)
(* sequence of runs [k, n], n >= 1 characters of kind k, where k = "s" is   *)
(* whitespace and every other kind is not ("w" word characters, "m" the     *)
(* "..." marker).  Lengths are the real ones (200, 5000, 8000, 10000).      *)

W(n) == << [k |-> "w", n |-> n] >>
S(n) == << [k |-> "s", n |-> n] >>
Marker == << [k |-> "m", n |-> 3] >>

\* len(t)
RECURSIVE TLen(_)
TLen(t) == IF t = <<>> THEN 0 ELSE Head(t).n + TLen(Tail(t))

RECURSIVE TLStrip(_)
TLStrip(t) == IF t = <<>> \/ Head(t).k # "s" THEN t ELSE TLStrip(Tail(t))

RECURSIVE TRStrip(_)
TRStrip(t) == IF t = <<>> \/ t[Len(t)].k # "s" THEN t ELSE TRStrip(SubSeq(t, 1, Len(t) - 1))

\* t.strip()
TStrip(t) == TRStrip(TLStrip(t))

\* re.sub(r'\s+', ' ', t)
RECURSIVE TCollapse(_)
TCollapse(t) ==
    IF t = <<>> THEN <<>>
    ELSE IF Head(t).k = "s" THEN S(1) \o TCollapse(TLStrip(t))
    ELSE << Head(t) >> \o TCollapse(Tail(t))

\* t[:n]
RECURSIVE TPrefix(_, _)
TPrefix(t, n) ==
    IF t = <<>> \/ n <= 0 THEN <<>>
    ELSE IF Head(t).n <= n THEN << Head(t) >> \o TPrefix(Tail(t), n - Head(t).n)
    ELSE << [k |-> Head(t).k, n |-> n] >>

\* sep.join(ts)
RECURSIVE TJoin(_, _)
TJoin(ts, sep) ==
    IF ts = <<>> THEN <<>>
    ELSE IF Len(ts) = 1 THEN ts[1]
    ELSE ts[1] \o sep \o TJoin(Tail(ts), sep)

(* The parsed document (the soup): a sequence of top-level elements, each   *)
(* [tag, cls, txt, kids]; kids is a sequence of elements without children.  *)
(* An element carries at most one class.                                    *)
Leaf(tag, cls, txt)      == [tag |-> tag, cls |-> cls, txt |-> txt, kids |-> <<>>]
Box(tag, cls, txt, kids) == [tag |-> tag, cls |-> cls, txt |-> txt, kids |-> kids]

\* element.get_text(): the element's own text, then that of its children
RECURSIVE KidsText(_)
KidsText(kids) == IF kids = <<>> THEN <<>> ELSE Head(kids).txt \o KidsText(Tail(kids))
get_text(e) == e.txt \o KidsText(e.kids)

(* A CSS selector [tag, cls, atag, acls]: the element's tag and class and   *)
(* its ancestor's tag and class, "" where the selector leaves one open.     *)
Sel(tag, cls)              == [tag |-> tag, cls |-> cls, atag |-> "", acls |-> ""]
SelIn(atag, acls, tag, cls) == [tag |-> tag, cls |-> cls, atag |-> atag, acls |-> acls]

Fits(tag, cls, e) == (tag = "" \/ e.tag = tag) /\ (cls = "" \/ e.cls = cls)

\* does the top-level element i / the child j of i match the selector
TopMatches(sel, soup, i) == sel.atag = "" /\ sel.acls = "" /\ Fits(sel.tag, sel.cls, soup[i])
KidMatches(sel, soup, i, j) ==
    /\ Fits(sel.tag, sel.cls, soup[i].kids[j])
    /\ (sel.atag = "" /\ sel.acls = "") \/ Fits(sel.atag, sel.acls, soup[i])

\* every element of the soup in document order, as <<i, j>> (j = 0: the top-level one)
RECURSIVE RefsFrom(_, _)
RefsFrom(soup, i) ==
    IF i > Len(soup) THEN <<>>
    ELSE << <<i, 0>> >> \o [j \in 1..Len(soup[i].kids) |-> <<i, j>>] \o RefsFrom(soup, i + 1)
Refs(soup) == RefsFrom(soup, 1)

RefMatches(sel, soup, r) ==
    IF r[2] = 0 THEN TopMatches(sel, soup, r[1]) ELSE KidMatches(sel, soup, r[1], r[2])

ElemAt(soup, r) == IF r[2] = 0 THEN soup[r[1]] ELSE soup[r[1]].kids[r[2]]

NoElem == <<0, 0>>

\* soup.select_one(selector): the first matching element in document order, or None
RECURSIVE FirstMatch(_, _, _, _)
FirstMatch(sel, soup, refs, n) ==
    IF n > Len(refs) THEN NoElem
    ELSE IF RefMatches(sel, soup, refs[n]) THEN refs[n]
    ELSE FirstMatch(sel, soup, refs, n + 1)
select_one(soup, sel) == FirstMatch(sel, soup, Refs(soup), 1)

\* the elements of es whose tag is not in tags and whose class is not in clss
RECURSIVE DropElems(_, _, _)
DropElems(es, tags, clss) ==
    IF es = <<>> THEN <<>>
    ELSE (IF Head(es).tag \in tags \/ Head(es).cls \in clss THEN <<>> ELSE << Head(es) >>)
         \o DropElems(Tail(es), tags, clss)

\* for tag in soup([...]): tag.decompose()  -- removes the elements at every depth
Decompose(soup, tags) ==
    LET tops == DropElems(soup, tags, {})
    IN  [i \in 1..Len(tops) |-> [tops[i] EXCEPT !.kids = DropElems(tops[i].kids, tags, {})]]

\* for unwanted in element.select(...): unwanted.decompose()  -- the descendants of
\* the element r that have one of the tags or classes
StripInside(soup, r, tags, clss) ==
    IF r[2] # 0 THEN soup
    ELSE [soup EXCEPT ![r[1]].kids = DropElems(soup[r[1]].kids, tags, clss)]

\* [p.get_text().strip() for p in soup.find_all('p') if len(p.get_text().strip()) > minLen]
RECURSIVE ParagraphTexts(_, _, _, _)
ParagraphTexts(soup, refs, n, minLen) ==
    IF n > Len(refs) THEN <<>>
    ELSE LET e == ElemAt(soup, refs[n])
             t == TStrip(get_text(e))
         IN  (IF e.tag = "p" /\ TLen(t) > minLen THEN << t >> ELSE <<>>)
             \o ParagraphTexts(soup, refs, n + 1, minLen)

NoneResult == [kind |-> "none", title |-> <<>>, body |-> <<>>, error |-> ""]
ArticleResult(title, body) == [kind |-> "article", title |-> title, body |-> body, error |-> ""]
ErrorResult(e) == [kind |-> "error", title |-> <<>>, body |-> <<>>, error |-> e]

-----------------------------------------------------------------------------
(* Variants of single steps of the code.  Each differs from the code in one *)
(* decision; a property that is to tell the code from the variant must     *)
(* fail when the variant takes the step's place.                           *)

\* a loop that sleeps after every failed attempt, the last one included
Var_sleeps_always(k) == TRUE

\* a DELETE without the user_id condition
Var_delete_any_user(rows, id, u) == { r \in rows : r.id = id }

\* an _extract_content without the paragraph fallback
Var_no_paragraph_fallback(soup) == <<>>

-----------------------------------------------------------------------------
(* bot_optimized.ContentExtractor                                          *)

MAX_TEXT_LENGTH  == 10000
OptTitleMax      == 200
OptContainerMin  == 200
OptParagraphMin  == 20
OptFallbackMin   == 200
OptAcceptMin     == 100

Opt_title_selectors ==
    << Sel("h1", "entry-title"), Sel("h1", "post-title"), Sel("h1", "article-title"),
       Sel("", "headline"), Sel("", "title"), Sel("h1", ""), Sel("title", "") >>

Opt_content_selectors ==
    << Sel("article", ""), Sel("", "entry-content"), Sel("", "post-content"),
       Sel("", "article-content"), Sel("", "content"), Sel("", "article-body"),
       Sel("main", ""), Sel("", "post-body"), Sel("", "story-body") >>

\* title[:200] + "..." when the title is longer than 200
Opt_title_limit(title) ==
    IF TLen(title) > OptTitleMax THEN TPrefix(title, OptTitleMax) \o Marker ELSE title

\* _extract_title: <<>> stands for None
RECURSIVE Opt_title_loop(_, _)
Opt_title_loop(soup, n) ==
    IF n > Len(Opt_title_selectors) THEN <<>>
    ELSE LET r == select_one(soup, Opt_title_selectors[n])
         IN  IF r # NoElem /\ TStrip(get_text(ElemAt(soup, r))) # <<>>
             THEN Opt_title_limit(TCollapse(TStrip(get_text(ElemAt(soup, r)))))
             ELSE Opt_title_loop(soup, n + 1)
Opt_extract_title(soup) == Opt_title_loop(soup, 1)

\* is the stripped text of a matched container long enough to be the content
Opt_container_ok(t) == TLen(t) > OptContainerMin

\* the selector loop of _extract_content; it removes the unwanted descendants of
\* every container it looks at, so the soup it leaves is returned too
RECURSIVE Opt_content_loop(_, _)
Opt_content_loop(soup, n) ==
    IF n > Len(Opt_content_selectors) THEN [found |-> FALSE, text |-> <<>>, soup |-> soup]
    ELSE LET r == select_one(soup, Opt_content_selectors[n])
         IN  IF r = NoElem THEN Opt_content_loop(soup, n + 1)
             ELSE LET soup2 == StripInside(soup, r, {"nav", "header", "footer", "aside"},
                                           {"advertisement", "ad", "social-share"})
                      t     == TStrip(get_text(ElemAt(soup2, r)))
                  IN  IF Opt_container_ok(t)
                      THEN [found |-> TRUE, text |-> TCollapse(t), soup |-> soup2]
                      ELSE Opt_content_loop(soup2, n + 1)

\* the paragraph fallback of _extract_content: <<>> stands for None
Opt_paragraph_fallback(soup) ==
    LET t == TJoin(ParagraphTexts(soup, Refs(soup), 1, OptParagraphMin), S(2))
    IN  IF TLen(t) > OptFallbackMin THEN t ELSE <<>>

Opt_extract_content(soup) ==
    LET c == Opt_content_loop(soup, 1)
    IN  IF c.found THEN c.text ELSE Opt_paragraph_fallback(c.soup)

\* content[:MAX_TEXT_LENGTH] + "..." when the content is longer
Opt_content_limit(content) ==
    IF TLen(content) > MAX_TEXT_LENGTH
    THEN TPrefix(content, MAX_TEXT_LENGTH) \o Marker ELSE content

\* _parse_content(html, url)
Opt_parse_content(html) ==
    LET soup    == Decompose(html, {"script", "style", "nav", "header", "footer", "aside", "iframe"})
        title   == Opt_extract_title(soup)
        content == Opt_extract_content(soup)
    IN  IF title = <<>> THEN NoneResult
        ELSE IF content = <<>> \/ TLen(TStrip(content)) < OptAcceptMin THEN NoneResult
        ELSE ArticleResult(TStrip(title), TStrip(Opt_content_limit(content)))

-----------------------------------------------------------------------------
(* bot_advanced.SmartContentExtractor                                      *)

AdvTitleMax     == 200
AdvContentMax   == 5000
AdvContainerMin == 200
AdvParagraphMin == 20
AdvFallbackMin  == 200
AdvAcceptMin    == 100

\* the "title unavailable" literal of bot_advanced.py:256 and bot.py:124, 14 characters
TitleUnavailable == << [k |-> "unavailable", n |-> 14] >>

Adv_title_selectors ==
    << Sel("h1", "entry-title"), Sel("h1", "post-title"), Sel("h1", "article-title"),
       Sel("", "story-headline"), Sel("", "headline"), Sel("", "title"), Sel("h1", "") >>

Adv_content_selectors ==
    << Sel("article", ""), Sel("", "entry-content"), Sel("", "post-content"),
       Sel("", "article-content"), Sel("", "story-body"), Sel("", "content"),
       Sel("", "article-body"), SelIn("main", "", "", "text"), Sel("", "post-body"),
       Sel("", "itemprop=articleBody") >>

\* what _extract_title returns when no selector gave a title
Adv_title_default(soup) ==
    LET r == select_one(soup, Sel("title", ""))
    IN  IF r # NoElem THEN TPrefix(TStrip(get_text(ElemAt(soup, r))), AdvTitleMax)
        ELSE TitleUnavailable

RECURSIVE Adv_title_loop(_, _)
Adv_title_loop(soup, n) ==
    IF n > Len(Adv_title_selectors) THEN Adv_title_default(soup)
    ELSE LET r == select_one(soup, Adv_title_selectors[n])
         IN  IF r # NoElem /\ TStrip(get_text(ElemAt(soup, r))) # <<>>
             THEN TPrefix(TCollapse(TStrip(get_text(ElemAt(soup, r)))), AdvTitleMax)
             ELSE Adv_title_loop(soup, n + 1)
Adv_extract_title(soup) == Adv_title_loop(soup, 1)

RECURSIVE Adv_content_loop(_, _)
Adv_content_loop(soup, n) ==
    IF n > Len(Adv_content_selectors) THEN [found |-> FALSE, text |-> <<>>, soup |-> soup]
    ELSE LET r == select_one(soup, Adv_content_selectors[n])
         IN  IF r = NoElem THEN Adv_content_loop(soup, n + 1)
             ELSE LET soup2 == StripInside(soup, r, {"nav", "header", "footer"},
                                           {"ad", "advertisement"})
                      t     == TStrip(get_text(ElemAt(soup2, r)))
                  IN  IF TLen(t) > AdvContainerMin
                      THEN [found |-> TRUE, text |-> TPrefix(TCollapse(t), AdvContentMax),
                            soup |-> soup2]
                      ELSE Adv_content_loop(soup2, n + 1)

Adv_extract_content_text(soup) ==
    LET c == Adv_content_loop(soup, 1)
    IN  IF c.found THEN c.text
        ELSE LET t == TJoin(ParagraphTexts(c.soup, Refs(c.soup), 1, AdvParagraphMin), S(1))
             IN  IF TLen(t) > AdvFallbackMin THEN TPrefix(t, AdvContentMax) ELSE <<>>

\* _extract_with_newspaper: the name Article is rebound at bot_advanced.py:62 to the
\* dataclass of the module, whose constructor rejects Article(url, language='he')
\* with a TypeError; the except clause turns it into None for every url.
Adv_extract_with_newspaper(html) == NoneResult

\* _extract_with_bs4, from the parsed response on
Adv_extract_with_bs4(html) ==
    LET soup    == Decompose(html, {"script", "style", "nav", "header", "footer", "aside",
                                    "iframe", "noscript"})
        title   == Adv_extract_title(soup)
        content == Adv_extract_content_text(soup)
    IN  IF title # <<>> /\ content # <<>> /\ TLen(content) > AdvAcceptMin
        THEN ArticleResult(title, content)
        ELSE NoneResult

\* extract_content, from the downloaded page on (the cache is left out: one call)
Adv_extract_content(html) ==
    LET r == Adv_extract_with_newspaper(html)
    IN  IF r.kind = "article" THEN r ELSE Adv_extract_with_bs4(html)

-----------------------------------------------------------------------------
(* bot.ReadLaterBot.extract_content_fallback, from the parsed response on  *)

BotTitleMax     == 200
BotTextMax      == 8000
BotContainerMin == 100
BotParagraphMin == 20

Bot_title_selectors ==
    << Sel("h1", "headline"), Sel("h1", "title"), Sel("h1", "article-title"),
       SelIn("", "headline", "h1", ""), SelIn("", "title", "h1", ""),
       SelIn("", "article-header", "h1", ""),
       Sel("h1", ""), Sel("title", ""), Sel("", "headline"), Sel("", "title") >>

Bot_content_selectors ==
    << SelIn("article", "", "", "content"), SelIn("article", "", "", "article-body"),
       SelIn("article", "", "", "text"),
       Sel("", "article-content"), Sel("", "article-body"), Sel("", "post-content"),
       Sel("", "entry-content"), Sel("", "content-body"), Sel("", "story-body"),
       Sel("article", ""), Sel("", "content"), Sel("main", ""), Sel("", "post") >>

RECURSIVE Bot_title_loop(_, _)
Bot_title_loop(soup, n) ==
    IF n > Len(Bot_title_selectors) THEN <<>>
    ELSE LET r == select_one(soup, Bot_title_selectors[n])
         IN  IF r # NoElem /\ TStrip(get_text(ElemAt(soup, r))) # <<>>
             THEN TStrip(get_text(ElemAt(soup, r)))
             ELSE Bot_title_loop(soup, n + 1)

\* the selector loop of bot.py:189-197: text keeps the text of the last container
\* looked at, and the loop stops at the first one longer than 100
RECURSIVE Bot_content_loop(_, _, _)
Bot_content_loop(soup, n, last) ==
    IF n > Len(Bot_content_selectors) THEN [text |-> last, soup |-> soup]
    ELSE LET r == select_one(soup, Bot_content_selectors[n])
         IN  IF r = NoElem THEN Bot_content_loop(soup, n + 1, last)
             ELSE LET soup2 == StripInside(soup, r, {"script", "style", "nav", "header",
                                                     "footer", "aside"}, {})
                      t     == TStrip(get_text(ElemAt(soup2, r)))
                  IN  IF TLen(t) > BotContainerMin THEN [text |-> t, soup |-> soup2]
                      ELSE Bot_content_loop(soup2, n + 1, t)

\* bot.py:199-217; a paragraph is skipped when len(p_text) < 20, and the literals of
\* the unwanted list are Hebrew phrases, which no text of the model holds
Bot_paragraphs(soup) ==
    TJoin(ParagraphTexts(soup, Refs(soup), 1, BotParagraphMin - 1), S(1))

\* does extract_content_fallback accept the title and the text it found
Bot_accepts(title, t) == title # <<>> /\ t # <<>>

Bot_extract_content_fallback(html) ==
    LET title == Bot_title_loop(html, 1)
        c     == Bot_content_loop(html, 1, <<>>)
        t     == IF c.text = <<>> THEN Bot_paragraphs(c.soup) ELSE c.text
    IN  IF Bot_accepts(title, t)
        THEN ArticleResult(TPrefix(title, BotTitleMax), TPrefix(t, BotTextMax))
        ELSE ErrorResult("no_content_found")

-----------------------------------------------------------------------------
(* Inputs of the extractors: a page is an optional <title>, an optional     *)
(* heading and at most MaxBodyParts body elements.                          *)

PageTitles == { <<>>, << Leaf("title", "", W(12)) >> }

PageHeads ==
    { <<>>,
      << Leaf("h1", "", S(2) \o W(30) \o S(3) \o W(5) \o S(1)) >>,   \* an <h1> with text
      << Leaf("h1", "", W(250)) >>,                                \* a long <h1>
      << Leaf("h1", "", S(3)) >>,                                  \* an <h1> of whitespace
      << Box("header", "", <<>>, << Leaf("h1", "", W(20)) >>) >> }  \* an <h1> in a <header>

BodyParts ==
    { Leaf("article", "", W(150)),
      Box("article", "", W(120) \o S(2) \o W(120),
          << Leaf("p", "", W(90)), Leaf("nav", "", W(40)) >>),
      Leaf("article", "", W(10050)),
      Leaf("article", "", W(1) \o S(250) \o W(1)),
      Box("div", "content", W(60), << Leaf("p", "ad", W(300)) >>),
      Leaf("p", "", W(21)),
      Leaf("p", "", W(90)),
      Leaf("p", "", S(1) \o W(20) \o S(1)),
      Box("nav", "", <<>>, << Leaf("p", "", W(90)) >>) }

MaxBodyParts == 3

RECURSIVE BodiesOf(_)
BodiesOf(n) ==
    IF n = 0 THEN { <<>> }
    ELSE LET shorter == BodiesOf(n - 1)
         IN  shorter \cup { b \o << e >> : b \in shorter, e \in BodyParts }

Pages == { t \o h \o b : t \in PageTitles, h \in PageHeads, b \in BodiesOf(MaxBodyParts) }

-----------------------------------------------------------------------------
(* Categorizers.  The category mappings of the programs hold Hebrew        *)
(* keywords; the model keeps the first three categories of a mapping, in   *)
(* their order, with keywords written in the model's letters.  "K" is the  *)
(* one upper-case letter of the model.                                     *)

DefaultCategory == "general"

CategoryTable ==
    << [name |-> "tech",    keywords |-> << Rep("k", 3), Rep("c", 3) >>],
       [name |-> "health",  keywords |-> << Rep("b", 3), Rep("d", 3) >>],
       [name |-> "economy", keywords |-> << Rep("a", 3) >>] >>

\* str.lower()
Lower(s) == [i \in 1..Len(s) |-> IF s[i] = "K" THEN "k" ELSE s[i]]

\* sum(1 for keyword in keywords if keyword.lower() in text)
KeywordsIn(keywords, t) ==
    Cardinality({ n \in 1..Len(keywords) : Contains(t, Lower(keywords[n])) })

\* text.count(keyword): the occurrences that do not overlap, from the left
RECURSIVE CountFrom(_, _, _)
CountFrom(hay, needle, i) ==
    IF i + Len(needle) - 1 > Len(hay) THEN 0
    ELSE IF SubSeq(hay, i, i + Len(needle) - 1) = needle
         THEN 1 + CountFrom(hay, needle, i + Len(needle))
         ELSE CountFrom(hay, needle, i + 1)
StrCount(hay, needle) == CountFrom(hay, needle, 1)

\* the first entry of the table, in its order, with the highest score above 0:
\* max(category_scores, key=category_scores.get) over a dict in insertion order,
\* and the loop "if score > best_score"
BestCategory(scores) ==
    IF \A n \in 1..Len(scores) : scores[n] = 0 THEN DefaultCategory
    ELSE CategoryTable[CHOOSE n \in 1..Len(scores) :
                           /\ \A m \in 1..Len(scores) : scores[m] <= scores[n]
                           /\ \A m \in 1..(n - 1) : scores[m] < scores[n]].name

\* ReadLaterBot.detect_category and OptimizedReadLaterBot.detect_category: the
\* first category one of whose keywords is in the text
RECURSIVE FirstCategoryIn(_, _)
FirstCategoryIn(full_text, n) ==
    IF n > Len(CategoryTable) THEN DefaultCategory
    ELSE IF KeywordsIn(CategoryTable[n].keywords, full_text) > 0 THEN CategoryTable[n].name
    ELSE FirstCategoryIn(full_text, n + 1)

OptCategorySample == 500

Bot_detect_category(title, t) == FirstCategoryIn(Lower(title \o << " " >> \o t), 1)

Opt_detect_category(title, t) ==
    FirstCategoryIn(Lower(title \o << " " >> \o Prefix(t, OptCategorySample)), 1)

\* content.split('\n\n')[0]
FirstParagraph(content) ==
    IF \E i \in 1..(Len(content) - 1) : content[i] = "\n" /\ content[i + 1] = "\n"
    THEN SubSeq(content, 1, (CHOOSE i \in 1..(Len(content) - 1) :
                                 /\ content[i] = "\n" /\ content[i + 1] = "\n"
                                 /\ \A j \in 1..(i - 1) :
                                        ~(content[j] = "\n" /\ content[j + 1] = "\n")) - 1)
    ELSE content

AdvTitleWeight     == 3
AdvParagraphWeight == 2
AdvContentWeight   == 1

\* the score SmartCategorizer.categorize gives a category
Adv_category_score(keywords, title, content) ==
    AdvTitleWeight * KeywordsIn(keywords, Lower(title))
    + AdvParagraphWeight * KeywordsIn(keywords, Lower(FirstParagraph(content)))
    + AdvContentWeight * KeywordsIn(keywords, Lower(content))

Adv_categorize(title, content) ==
    BestCategory([n \in 1..Len(CategoryTable) |->
                     Adv_category_score(CategoryTable[n].keywords, title, content)])

SupTitleBonus     == 3
SupCategorySample == 1000

RECURSIVE Sup_keyword_score(_, _, _, _)
Sup_keyword_score(keywords, n, title, t) ==
    IF n > Len(keywords) THEN 0
    ELSE (IF Contains(Lower(title), Lower(keywords[n])) THEN SupTitleBonus ELSE 0)
         + StrCount(t, Lower(keywords[n]))
         + Sup_keyword_score(keywords, n + 1, title, t)

\* the score categorize_article of bot_super_advanced and bot_mega_advanced gives
Sup_category_score(keywords, title, content) ==
    Sup_keyword_score(keywords, 1, title,
                      Lower(title \o << " " >> \o Prefix(content, SupCategorySample)))

\* SuperAdvancedBot.categorize_article: the loop with "if score > best_score"
Sup_categorize_article(title, content) ==
    BestCategory([n \in 1..Len(CategoryTable) |->
                     Sup_category_score(CategoryTable[n].keywords, title, content)])

\* MegaAdvancedBot.categorize_article: max over the categories with a score above 0
Mega_categorize_article(title, content) ==
    BestCategory([n \in 1..Len(CategoryTable) |->
                     Sup_category_score(CategoryTable[n].keywords, title, content)])

-----------------------------------------------------------------------------
(* The record store: the articles table and the methods that read and      *)
(* write it.  Text columns are character sequences.                        *)

Users      == { 1, 2 }
Categories == { "general", "tech" }
MaxRows    == 2      \* ids handed out
MaxClock   == 1      \* seconds that pass

Title1 == Rep("a", 3)
Title2 == Rep("b", 3) \o << " " >> \o Rep("a", 3)
StoreTitles    == { Title1, Title2 }
StoreSummary   == Rep("c", 3) \o << "." >>
StoreQueries   == { <<>>, Rep("a", 3), Rep("b", 3), Rep("c", 3) \o << " " >> \o Rep("b", 3),
                    Rep("d", 3) }
StoreLimits    == { 1, 10 }
StoreTags      == { <<>>, Rep("d", 3) }

\* word.isalpha() for a word of \w characters
IsAlpha(w) == \A i \in 1..Len(w) : ~IsDigit(w[i])

RECURSIVE KeepKeywordWords(_)
KeepKeywordWords(ws) ==
    IF ws = <<>> THEN <<>>
    ELSE (IF Len(Head(ws)) >= 3 /\ IsAlpha(Head(ws)) THEN << Head(ws) >> ELSE <<>>)
         \o KeepKeywordWords(Tail(ws))

\* the distinct elements of ws in order of first occurrence, each with its count
RECURSIVE Counted(_, _, _)
Counted(ws, i, all) ==
    IF i > Len(ws) THEN <<>>
    ELSE (IF \E j \in 1..(i - 1) : ws[j] = ws[i] THEN <<>>
          ELSE << [s |-> ws[i], score |-> Count(all, ws[i]), pos |-> i] >>)
         \o Counted(ws, i + 1, all)

(* bot.py extract_keywords(title, summary, max_keywords=8).  The stop-word  *)
(* set holds Hebrew words and English words, none of which can be written  *)
(* with the letters a b c d k; re.sub turns every character that is not a  *)
(* word character or whitespace into a blank, so the words are the maximal *)
(* runs of word characters.                                                *)
extract_keywords(title, summ) ==
    LET ws == KeepKeywordWords(Words(title \o << " " >> \o summ))
    IN  Join(Sentences(Prefix(SortByScoreDesc(Counted(ws, 1, ws)), 8)), << ",", " " >>)

\* query.lower().split()
RECURSIVE TermsFrom(_, _)
TermsFrom(q, i) ==
    LET b == SkipSpace(q, i)
    IN  IF b > Len(q) THEN <<>>
        ELSE LET e == CHOOSE e \in b..Len(q) :
                          /\ \A j \in b..e : ~IsSpace(q[j])
                          /\ (e = Len(q) \/ IsSpace(q[e + 1]))
             IN  << SubSeq(q, b, e) >> \o TermsFrom(q, e + 1)
SearchTerms(q) == TermsFrom(q, 1)

\* column LIKE '%term%' for a term without the wildcards % and _
Like(column, term) == Contains(column, term)

NewRow(id, u, title, summ, cat, tags, kw, now) ==
    [id |-> id, user_id |-> u, title |-> title, summary |-> summ, category |-> cat,
     tags |-> tags, keywords |-> kw, date_saved |-> now]

\* ORDER BY date_saved DESC; rows saved in the same second come in the order of
\* their ids or in the reverse order (SQL leaves it open): tie = "asc" or "desc"
RECURSIVE OrderByDateDesc(_, _)
OrderByDateDesc(rows, tie) ==
    IF rows = {} THEN <<>>
    ELSE LET first == CHOOSE r \in rows : \A q \in rows :
                          \/ r.date_saved > q.date_saved
                          \/ /\ r.date_saved = q.date_saved
                             /\ IF tie = "asc" THEN r.id <= q.id ELSE r.id >= q.id
         IN  << first >> \o OrderByDateDesc(rows \ {first}, tie)

\* LIMIT n OFFSET k
LimitOffset(rs, n, k) == SubSeq(rs, k + 1, Min2(Len(rs), k + n))

\* ---- bot.py ReadLaterBot

\* WHERE user_id = ? [AND category = ?]
Bot_select_user(rows, u, cat) ==
    { r \in rows : r.user_id = u /\ (cat = "" \/ r.category = cat) }

\* DELETE FROM articles WHERE id = ? AND user_id = ?
Bot_delete_where(rows, id, u) == { r \in rows : r.id = id /\ r.user_id = u }

\* WHERE user_id = ? AND (every term is LIKE-matched by one of the four columns)
Bot_search_where(rows, u, terms) ==
    { r \in rows :
        /\ r.user_id = u
        /\ \A n \in 1..Len(terms) :
              \/ Like(r.title, terms[n]) \/ Like(r.summary, terms[n])
              \/ Like(r.keywords, terms[n]) \/ Like(r.tags, terms[n]) }

\* UPDATE articles SET category = ? [, tags = ?] WHERE id = ?
Bot_update_where(rows, id) == { r \in rows : r.id = id }

\* ---- bot_advanced_db.py AdvancedDatabase

AdvDb_select_user(rows, u, cat) ==
    { r \in rows : r.user_id = u /\ (cat = "" \/ r.category = cat) }

AdvDb_delete_where(rows, id, u) == { r \in rows : r.id = id /\ r.user_id = u }

\* WHERE user_id = ? AND (title LIKE ? OR summary LIKE ? OR content LIKE ?); the
\* content column is not kept in the model's rows
AdvDb_search_where(rows, u, q) ==
    { r \in rows : r.user_id = u /\ (Like(r.title, q) \/ Like(r.summary, q)) }

-----------------------------------------------------------------------------
(* The summarizer as a state machine: one call on one input.               *)

SumInit ==
    /\ text \in Texts
    /\ max_length \in MaxLengths
    /\ fault \in BOOLEAN
    /\ impl = "none"
    /\ summary = <<>>
    /\ order = <<>>
    /\ path = "none"

Return(name, r) ==
    /\ impl' = name
    /\ summary' = r.summary
    /\ order' = r.order
    /\ path' = r.path
    /\ UNCHANGED <<text, max_length, fault>>

\* summarizer.summarize(text, max_length) of bot_advanced
SummarizeAdvanced ==
    /\ impl = "none"
    /\ Return("advanced", Adv_summarize(text, max_length, fault))
    /\ SumFrame

\* SmartSummarizer.summarize(text, max_length) of bot_optimized
SummarizeOptimized ==
    /\ impl = "none"
    /\ Return("optimized", Opt_summarize(text, max_length, fault))
    /\ SumFrame

\* bot.summarize_text(text, max_length) of bot.py (use_openai = False, bot.py:620)
SummarizeBot ==
    /\ impl = "none"
    /\ Return("bot", Bot_summarize_text(text, max_length, fault))
    /\ SumFrame

\* MegaAdvancedBot.smart_summarize(text, max_length)
SummarizeMega ==
    /\ impl = "none"
    /\ Return("mega", Mega_smart_summarize(text, max_length, fault))
    /\ SumFrame

SumNext == SummarizeAdvanced \/ SummarizeOptimized \/ SummarizeBot \/ SummarizeMega

SumIdle ==
    /\ text = <<>> /\ max_length = DefaultMaxLength /\ fault = FALSE
    /\ impl = "none" /\ summary = <<>> /\ order = <<>> /\ path = "none"

-----------------------------------------------------------------------------
(* The extractor as a state machine: one call on one page.                 *)

ExtInit == page \in Pages /\ extractor = "none" /\ article = NoneResult

ExtIdle == page = <<>> /\ extractor = "none" /\ article = NoneResult

\* ContentExtractor._parse_content(html, url) of bot_optimized
ParseOptimized ==
    /\ extractor = "none"
    /\ extractor' = "optimized"
    /\ article' = Opt_parse_content(page)
    /\ UNCHANGED page
    /\ ExtFrame

\* SmartContentExtractor.extract_content of bot_advanced, from the page on
ParseAdvanced ==
    /\ extractor = "none"
    /\ extractor' = "advanced"
    /\ article' = Adv_extract_content(page)
    /\ UNCHANGED page
    /\ ExtFrame

\* ReadLaterBot.extract_content_fallback of bot.py, from the page on
ParseBot ==
    /\ extractor = "none"
    /\ extractor' = "bot"
    /\ article' = Bot_extract_content_fallback(page)
    /\ UNCHANGED page
    /\ ExtFrame

ExtNext == ParseOptimized \/ ParseAdvanced \/ ParseBot

-----------------------------------------------------------------------------
(* The record store as a state machine: one program's table, written and   *)
(* read by the methods of its class.                                       *)

StoreOp(name, u, id, q, cat, raised) ==
    [name |-> name, user |-> u, id |-> id, query |-> q, category |-> cat, raised |-> raised]

NoOp == StoreOp("none", 0, 0, <<>>, "", FALSE)

StoreInit ==
    /\ dbimpl \in {"bot", "advanced_db"}
    /\ articles = {} /\ next_id = 1 /\ clock = 0
    /\ op = NoOp /\ result = <<>> /\ removed = {}

StoreIdle ==
    /\ dbimpl = "none"
    /\ articles = {} /\ next_id = 1 /\ clock = 0
    /\ op = NoOp /\ result = <<>> /\ removed = {}

\* a second passes
Tick ==
    /\ clock < MaxClock
    /\ clock' = clock + 1
    /\ UNCHANGED <<articles, next_id, op, result, removed, dbimpl>>
    /\ StoreFrame

Insert(row, u) ==
    /\ next_id <= MaxRows
    /\ articles' = articles \cup {row}
    /\ next_id' = next_id + 1
    /\ op' = StoreOp("save_article", u, next_id, <<>>, row.category, FALSE)
    /\ result' = <<>> /\ removed' = {}
    /\ UNCHANGED <<clock, dbimpl>>

Select(name, rows, u, q, cat, n) ==
    /\ \E tie \in {"asc", "desc"} : result' = LimitOffset(OrderByDateDesc(rows, tie), n, 0)
    /\ op' = StoreOp(name, u, 0, q, cat, FALSE)
    /\ removed' = {}
    /\ UNCHANGED <<articles, next_id, clock, dbimpl>>

Delete(rows, id, u) ==
    /\ articles' = articles \ rows
    /\ removed' = rows
    /\ op' = StoreOp("delete_article", u, id, <<>>, "", FALSE)
    /\ result' = <<>>
    /\ UNCHANGED <<next_id, clock, dbimpl>>

\* ReadLaterBot.save_article(user_id, url, title, summary, full_text, category)
Bot_save_article(u, title, cat) ==
    /\ dbimpl = "bot"
    /\ Insert(NewRow(next_id, u, title, StoreSummary, cat, <<>>,
                     extract_keywords(title, StoreSummary), clock), u)
    /\ StoreFrame

\* ReadLaterBot.get_user_articles(user_id, category)
Bot_get_user_articles(u, cat) ==
    /\ dbimpl = "bot"
    /\ Select("get_user_articles", Bot_select_user(articles, u, cat), u, <<>>, cat,
              Cardinality(articles))
    /\ StoreFrame

\* the table after UPDATE articles SET category = ? [, tags = ?] WHERE id = ?
Bot_updated(rows, id, cat, tags) ==
    { IF r \in Bot_update_where(rows, id)
      THEN [r EXCEPT !.category = cat, !.tags = IF tags # <<>> THEN tags ELSE @]
      ELSE r : r \in rows }

\* ReadLaterBot.update_article_category(article_id, category, tags)
Bot_update_article_category(id, cat, tags) ==
    /\ dbimpl = "bot"
    /\ articles' = Bot_updated(articles, id, cat, tags)
    /\ op' = StoreOp("update_article_category", 0, id, tags, cat, FALSE)
    /\ result' = <<>> /\ removed' = {}
    /\ UNCHANGED <<next_id, clock, dbimpl>>
    /\ StoreFrame

\* bot.py tag_command, sent by usr as /tag <id> <category> [<tags>]: the update, then
\* the confirmation
Bot_tag_command(usr, id, cat, tags) ==
    /\ dbimpl = "bot"
    /\ articles' = Bot_updated(articles, id, cat, tags)
    /\ op' = StoreOp("tag_command", usr, id, tags, cat, FALSE)
    /\ result' = <<>> /\ removed' = {}
    /\ UNCHANGED <<next_id, clock, dbimpl>>
    /\ StoreFrame

\* bot.py button_callback, data set_cat_<id>_<category> pressed by usr: the update,
\* then SELECT * FROM articles WHERE id = ? AND user_id = ? for the answer
Bot_set_cat_callback(usr, id, cat) ==
    /\ dbimpl = "bot"
    /\ articles' = Bot_updated(articles, id, cat, <<>>)
    /\ op' = StoreOp("set_cat", usr, id, <<>>, cat, FALSE)
    /\ result' = OrderByDateDesc({ r \in articles' : r.id = id /\ r.user_id = usr }, "asc")
    /\ removed' = {}
    /\ UNCHANGED <<next_id, clock, dbimpl>>
    /\ StoreFrame

\* ReadLaterBot.delete_article(article_id, user_id)
Bot_delete_article(id, u) ==
    /\ dbimpl = "bot"
    /\ Delete(Bot_delete_where(articles, id, u), id, u)
    /\ StoreFrame

(* ReadLaterBot.search_articles(user_id, search_query).  A query without   *)
(* terms leaves the parentheses of the WHERE clause empty and the execute  *)
(* call raises sqlite3.OperationalError.                                   *)
Bot_search_articles(u, q) ==
    /\ dbimpl = "bot"
    /\ IF SearchTerms(q) = <<>>
       THEN /\ op' = StoreOp("search_articles", u, 0, q, "", TRUE)
            /\ result' = <<>> /\ removed' = {}
            /\ UNCHANGED <<articles, next_id, clock, dbimpl>>
       ELSE Select("search_articles", Bot_search_where(articles, u, SearchTerms(q)), u, q, "",
                   Cardinality(articles))
    /\ StoreFrame

\* AdvancedDatabase.save_article(user_id, url, title, summary, content, category, ...)
AdvDb_save_article(u, title, cat) ==
    /\ dbimpl = "advanced_db"
    /\ Insert(NewRow(next_id, u, title, StoreSummary, cat, <<>>, <<>>, clock), u)
    /\ StoreFrame

\* AdvancedDatabase.get_user_articles(user_id, category, limit), sorted by date_saved
AdvDb_get_user_articles(u, cat, n) ==
    /\ dbimpl = "advanced_db"
    /\ Select("get_user_articles", AdvDb_select_user(articles, u, cat), u, <<>>, cat, n)
    /\ StoreFrame

\* AdvancedDatabase.delete_article(article_id, user_id)
AdvDb_delete_article(id, u) ==
    /\ dbimpl = "advanced_db"
    /\ Delete(AdvDb_delete_where(articles, id, u), id, u)
    /\ StoreFrame

\* AdvancedDatabase.search_articles(user_id, query, limit)
AdvDb_search_articles(u, q, n) ==
    /\ dbimpl = "advanced_db"
    /\ Select("search_articles", AdvDb_search_where(articles, u, q), u, q, "", n)
    /\ StoreFrame

StoreNext ==
    \/ Tick
    \/ \E u \in Users, t \in StoreTitles, c \in Categories : Bot_save_article(u, t, c)
    \/ \E u \in Users, c \in Categories \cup {""} : Bot_get_user_articles(u, c)
    \/ \E id \in 1..MaxRows, c \in Categories, t \in StoreTags :
           Bot_update_article_category(id, c, t)
    \/ \E u \in Users, id \in 1..MaxRows, c \in Categories, t \in StoreTags :
           Bot_tag_command(u, id, c, t)
    \/ \E u \in Users, id \in 1..MaxRows, c \in Categories : Bot_set_cat_callback(u, id, c)
    \/ \E id \in 1..MaxRows, u \in Users : Bot_delete_article(id, u)
    \/ \E u \in Users, q \in StoreQueries : Bot_search_articles(u, q)
    \/ \E u \in Users, t \in StoreTitles, c \in Categories : AdvDb_save_article(u, t, c)
    \/ \E u \in Users, c \in Categories \cup {""}, n \in StoreLimits :
           AdvDb_get_user_articles(u, c, n)
    \/ \E id \in 1..MaxRows, u \in Users : AdvDb_delete_article(id, u)
    \/ \E u \in Users, q \in StoreQueries, n \in StoreLimits : AdvDb_search_articles(u, q, n)


-----------------------------------------------------------------------------
(* bot_optimized: one URL message handled by handle_url_optimized, which    *)
(* awaits bot.extract_article_content, which awaits                        *)
(* ContentExtractor.extract_with_retry.  The handler is followed up to the *)
(* message it shows once the article is loaded or has failed to load.      *)

MAX_RETRIES == 3
MaxRuns     == 2     \* messages handled

\* what one session.get(url) ends in
Failures == { "timeout", "network", "http403", "http404", "http500" }
Outcomes == Failures \cup { "ok200" }

\* message texts: two links and a text that does not match r'https?://'
GoodUrls == { "http://a", "https://b" }
Messages == GoodUrls \cup { "ftp://c" }

\* pages a server answers a 200 with
GoodPage == << Leaf("h1", "", W(30)), Leaf("article", "", W(250)) >>
BarePage == << Leaf("h1", "", W(30)), Leaf("p", "", W(90)) >>
NoPage   == << Leaf("div", "", W(5)) >>
ServedPages == { GoodPage, BarePage, NoPage }

\* re.match(r'https?://', url)
IsHttpUrl(u) == u \in GoodUrls

\* await asyncio.sleep(2 ** attempt)
Backoff(k) == 2 ^ k

\* if attempt < Config.MAX_RETRIES - 1
SleepsAfter(k) == k < MAX_RETRIES - 1

\* a run-length encoded text written out: a letter for a word character, a
\* blank for whitespace, a full stop for each character of the "..." marker
RECURSIVE Expand(_)
Expand(t) ==
    IF t = <<>> THEN <<>>
    ELSE Rep(IF Head(t).k = "s" THEN " " ELSE IF Head(t).k = "m" THEN "." ELSE "a", Head(t).n)
         \o Expand(Tail(t))

SummaryKeyLength == 1000

\* str(hash(text[:1000])): texts with the same first 1000 characters have the same
\* key; two different prefixes are taken to hash to different keys
SummaryKey(t) == Prefix(t, SummaryKeyLength)

SummaryCached(cache, t) == \E i \in 1..Len(cache) : cache[i].key = SummaryKey(t)

\* OptimizedReadLaterBot.summarize_text(text) on the cache given: the summary
\* returned and the cache left.  article_cache is a TTLCache(maxsize=1000,
\* ttl=3600); the calls modelled are fewer and fall within the hour.
Opt_summarize_text(cache, t, flt) ==
    IF SummaryCached(cache, t)
    THEN [summary |-> cache[CHOOSE i \in 1..Len(cache) : cache[i].key = SummaryKey(t)].summary,
          cache   |-> cache]
    ELSE LET r == Opt_summarize(t, DefaultMaxLength, flt).summary
         IN  [summary |-> r,
              cache   |-> Append(cache, [key |-> SummaryKey(t), summary |-> r])]

\* a variant of the test below that lets every result through
Var_any_result(content) == TRUE

\* if not article_data (bot_optimized); if not article_data or 'error' in
\* article_data (bot.py)
HasArticle(content) == content.kind = "article"

FetchInit ==
    /\ prog = "optimized"
    /\ fpc = "idle" /\ url = "" /\ attempt = 0 /\ requests = <<>> /\ sleeps = <<>>
    /\ fetched = NoneResult /\ reply = "none" /\ url_cache = <<>> /\ runs = 0
    /\ fetches = <<>>

\* both programs, each with its own store
HandlersInit ==
    /\ prog \in {"optimized", "bot"}
    /\ fpc = "idle" /\ url = "" /\ attempt = 0 /\ requests = <<>> /\ sleeps = <<>>
    /\ fetched = NoneResult /\ reply = "none" /\ url_cache = <<>> /\ runs = 0
    /\ fetches = <<>>

FetchIdle ==
    /\ prog = "none"
    /\ fpc = "idle" /\ url = "" /\ attempt = 0 /\ requests = <<>> /\ sleeps = <<>>
    /\ fetched = NoneResult /\ reply = "none" /\ url_cache = <<>> /\ runs = 0
    /\ fetches = <<>>

\* bot.url_cache, a TTLCache(maxsize=500, ttl=7200): the messages handled here
\* arrive within the two hours an entry lives and are fewer than 500
CacheHas(u)  == \E i \in 1..Len(url_cache) : url_cache[i].url = u
CacheGet(u)  == (CHOOSE i \in 1..Len(url_cache) : url_cache[i].url = u)
CachePut(u, content) == Append(url_cache, [url |-> u, content |-> content])

(* handle_url_optimized up to the call of extract_with_retry: the message  *)
(* that is no link is answered at once; a link found in url_cache is       *)
(* answered from the cache without a request.                              *)
HandleUrl(u) ==
    /\ prog = "optimized"
    /\ fpc \in {"idle", "done"} /\ runs < MaxRuns
    /\ runs' = runs + 1
    /\ url' = u
    /\ attempt' = 0 /\ requests' = <<>> /\ sleeps' = <<>>
    /\ IF ~IsHttpUrl(u)
       THEN fpc' = "done" /\ reply' = "invalid_url" /\ fetched' = NoneResult
       ELSE IF CacheHas(u)
       THEN fpc' = "returned" /\ reply' = "loading" /\ fetched' = url_cache[CacheGet(u)].content
       ELSE fpc' = "request" /\ reply' = "loading" /\ fetched' = NoneResult
    /\ UNCHANGED <<url_cache, prog, fetches>>
    /\ FetchFrame

\* extract_with_retry returns and extract_article_content caches what is truthy
ReturnContent(content) ==
    /\ fetched' = content
    /\ url_cache' = IF content.kind = "article" THEN CachePut(url, content) ELSE url_cache
    /\ fpc' = "returned"

(* One pass of the loop body up to the sleep: the request, and on status   *)
(* 200 the parse, whose value is returned whatever it is.                  *)
Request(outcome, served) ==
    /\ fpc = "request" /\ attempt < MAX_RETRIES
    /\ requests' = Append(requests, outcome)
    /\ IF outcome = "ok200"
       THEN ReturnContent(Opt_parse_content(served)) /\ UNCHANGED attempt
       ELSE /\ IF SleepsAfter(attempt)
               THEN fpc' = "sleep" /\ UNCHANGED attempt
               ELSE fpc' = "request" /\ attempt' = attempt + 1
            /\ UNCHANGED <<fetched, url_cache>>
    /\ UNCHANGED <<url, sleeps, reply, runs, prog, fetches>>
    /\ FetchFrame

\* await asyncio.sleep(2 ** attempt), then the next pass
Sleep ==
    /\ fpc = "sleep"
    /\ sleeps' = Append(sleeps, Backoff(attempt))
    /\ attempt' = attempt + 1
    /\ fpc' = "request"
    /\ UNCHANGED <<url, requests, fetched, reply, url_cache, runs, prog, fetches>>
    /\ FetchFrame

\* the loop is over: return None
Exhausted ==
    /\ fpc = "request" /\ attempt >= MAX_RETRIES
    /\ ReturnContent(NoneResult)
    /\ UNCHANGED <<url, attempt, requests, sleeps, reply, runs, prog, fetches>>
    /\ FetchFrame

(* The rest of handle_url_optimized.  Without an article the one failure   *)
(* message is sent and the handler returns; with one, the summary (through *)
(* summarize_text and its cache), the category and save_article, whose     *)
(* INSERT gives no tags.  flt: the try body of the summarizer raises.      *)
HandleResult(usr, flt) ==
    /\ fpc = "returned"
    /\ IF ~HasArticle(fetched)
       THEN /\ reply' = "load_failed"
            /\ UNCHANGED <<dbVars, article_cache>>
       ELSE LET body == Expand(fetched.body)
                r    == Opt_summarize_text(article_cache, body, flt)
                cat  == Opt_detect_category(Expand(fetched.title), body)
            IN  /\ article_cache' = r.cache
                /\ Insert(NewRow(next_id, usr, Expand(fetched.title), r.summary, cat,
                                 <<>>, <<>>, clock), usr)
                /\ reply' = "saved"
    /\ fpc' = "done"
    /\ UNCHANGED <<url, attempt, requests, sleeps, fetched, url_cache, runs, prog, fetches>>
    /\ SaveFrame

-----------------------------------------------------------------------------
(* bot.py: handle_url with extract_article_content and the fallback.       *)
(* newspaper's Article is a library: what download() and parse() end in is *)
(* an input, "ok_text" (a 200 and a text), "ok_empty" (a 200 and no text)  *)
(* or a failure, which parse() raises.                                     *)

BlockedUrl == "https://calcalist.co.il/x"
BotUrls    == GoodUrls \cup { BlockedUrl }

\* for domain in blocked_domains: if domain in url
IsBlocked(u) == u = BlockedUrl

\* every failure of a download ends in the same except clause: two of them
NewsFailures == { "http403", "timeout" }
NewsOutcomes == NewsFailures \cup { "ok_text", "ok_empty" }

\* what newspaper gives for a page it finds a text in
NewsArticle == ArticleResult(W(30), W(120))

Fetch(via, outcome) == [via |-> via, outcome |-> outcome]

\* ReadLaterBot.extract_article_content(url): the value returned and the
\* downloads made.  he, en: what the download with language 'he', 'en' ends in.
Bot_extract_article_content(u, he, en) ==
    IF IsBlocked(u)
    THEN [content |-> ErrorResult("blocked_domain"), fetches |-> <<>>]
    ELSE IF he \in NewsFailures
    THEN [content |-> ErrorResult(he), fetches |-> << Fetch("newspaper_he", he) >>]
    ELSE IF he = "ok_text"
    THEN [content |-> NewsArticle, fetches |-> << Fetch("newspaper_he", he) >>]
    ELSE LET both == << Fetch("newspaper_he", he), Fetch("newspaper_en", en) >>
         IN  IF en \in NewsFailures THEN [content |-> ErrorResult(en), fetches |-> both]
             ELSE IF en = "ok_text" THEN [content |-> NewsArticle, fetches |-> both]
             ELSE [content |-> ErrorResult("no_content"), fetches |-> both]

\* ReadLaterBot.extract_content_fallback(url): requests.get, raise_for_status,
\* then the page; the except clauses name the failure
Bot_fallback_result(outcome, served) ==
    IF outcome = "ok200" THEN Bot_extract_content_fallback(served)
    ELSE IF outcome = "http403" THEN ErrorResult("access_denied")
    ELSE IF outcome = "http404" THEN ErrorResult("http_error_404")
    ELSE IF outcome = "http500" THEN ErrorResult("http_error_500")
    ELSE ErrorResult(outcome)

\* the message for a request that ends without an article
Bot_failure_reply(content) ==
    IF content.kind = "error" /\ content.error \in {"access_denied", "http_error_403"}
    THEN "access_denied"
    ELSE IF content.kind = "error" /\ content.error \in {"no_content", "no_content_found"}
    THEN "no_content"
    ELSE "load_failed"

\* what the downloads of one call end in; a download that is not made has no
\* outcome, written "ok_text" for newspaper and "ok200" with NoPage for the fallback
BotInputs(u) ==
    IF IsBlocked(u)
    THEN { [he |-> "ok_text", en |-> "ok_text", fb |-> "ok200", served |-> NoPage] }
    ELSE { i \in [he : NewsOutcomes, en : NewsOutcomes, fb : Outcomes, served : ServedPages] :
             /\ i.he # "ok_empty" => i.en = "ok_text"
             /\ Bot_extract_article_content(u, i.he, i.en).content.kind # "error"
                    => i.fb = "ok200"
             /\ (Bot_extract_article_content(u, i.he, i.en).content.kind # "error"
                    \/ i.fb # "ok200") => i.served = NoPage }

(* handle_url(url, update, context), all of it: extract_article_content;   *)
(* for a blocked domain the reply and return; for any other error the      *)
(* fallback; without an article the failure reply and return; else the     *)
(* summary, the category and save_article.                                 *)
Bot_handle_url(u, usr, he, en, fb, served, flt) ==
    /\ prog = "bot"
    /\ fpc \in {"idle", "done"} /\ runs < MaxRuns
    /\ runs' = runs + 1
    /\ url' = u
    /\ fpc' = "done"
    /\ LET first  == Bot_extract_article_content(u, he, en)
           retry  == first.content.kind = "error" /\ ~IsBlocked(u)
           final  == IF retry THEN Bot_fallback_result(fb, served) ELSE first.content
       IN  /\ fetched' = final
           /\ fetches' = IF retry THEN Append(first.fetches, Fetch("fallback", fb))
                         ELSE first.fetches
           /\ IF IsBlocked(u)
              THEN reply' = "blocked" /\ UNCHANGED dbVars
              ELSE IF ~HasArticle(final)
              THEN reply' = Bot_failure_reply(final) /\ UNCHANGED dbVars
              ELSE LET body == Expand(final.body)
                       summ == Bot_summarize_text(body, DefaultMaxLength, flt).summary
                       cat  == Bot_detect_category(Expand(final.title), body)
                   IN  /\ Insert(NewRow(next_id, usr, Expand(final.title), summ, cat, <<>>,
                                        extract_keywords(Expand(final.title), summ), clock),
                                 usr)
                       /\ reply' = "saved"
    /\ UNCHANGED <<attempt, requests, sleeps, url_cache, prog, article_cache>>
    /\ SaveFrame

FetchNext ==
    \/ \E u \in Messages : HandleUrl(u)
    \/ \E o \in Outcomes, p \in ServedPages : Request(o, p)
    \/ Sleep
    \/ Exhausted
    \/ \E usr \in Users, flt \in BOOLEAN : HandleResult(usr, flt)

HandlersNext ==
    \/ \E u \in Messages : HandleUrl(u)
    \/ \E o \in Outcomes, p \in ServedPages : Request(o, p)
    \/ Sleep
    \/ Exhausted
    \/ \E usr \in Users, flt \in BOOLEAN : HandleResult(usr, flt)
    \/ \E u \in BotUrls, usr \in Users, flt \in BOOLEAN : \E i \in BotInputs(u) :
          Bot_handle_url(u, usr, i.he, i.en, i.fb, i.served, flt)

-----------------------------------------------------------------------------
(* OptimizedReadLaterBot.summarize_text called several times on one bot:   *)
(* the cache outlives the call.                                            *)

MaxCalls == 3     \* summarize_text calls

\* a first sentence that fills the first 1000 characters, and later sentences
LongHead == Rep("a", SummaryKeyLength - 2) \o << ".", " " >>
TailB    == Rep("b", 25) \o << "." >>
TailC    == Rep("c", 25) \o << "." >>

CacheTexts ==
    { LongHead \o TailB, LongHead \o TailC,
      Rep("b", 25) \o << ".", " " >> \o TailC,
      Rep("c", 25) \o << ".", " " >> \o TailB,
      TailB, TailC }

CacheInit == article_cache = <<>> /\ stext = <<>> /\ sresult = <<>> /\ calls = 0

CacheIdle == CacheInit

\* await bot.summarize_text(text)
SummarizeText(t) ==
    /\ calls < MaxCalls
    /\ LET r == Opt_summarize_text(article_cache, t, FALSE)
       IN  article_cache' = r.cache /\ sresult' = r.summary
    /\ stext' = t
    /\ calls' = calls + 1
    /\ CacheFrame

CacheNext == \E t \in CacheTexts : SummarizeText(t)

-----------------------------------------------------------------------------
(* The categorizers as a state machine: one call on a title and a body,    *)
(* and the same call on the body with other whitespace between its words.  *)

MaxCatWords == 3     \* words of a body

CatWords  == { Rep("k", 3), Rep("b", 3), Rep("d", 3) }
CatSeps   == { << " " >>, << "\n", "\n" >> }
CatTitles == { <<>>, Rep("b", 3), << "K", "k", "k" >> }

RECURSIVE BodyOf(_, _)
BodyOf(ws, seps) ==
    IF Len(ws) = 1 THEN ws[1]
    ELSE ws[1] \o seps[1] \o BodyOf(Tail(ws), Tail(seps))

CatInit ==
    /\ ctitle \in CatTitles
    /\ \E n \in 1..MaxCatWords :
         \E ws \in [1..n -> CatWords], s1 \in [1..(n - 1) -> CatSeps],
            s2 \in [1..(n - 1) -> CatSeps] :
            cbody = BodyOf(ws, s1) /\ cbody2 = BodyOf(ws, s2)
    /\ cimpl = "none" /\ category = "" /\ category2 = ""

CatIdle ==
    /\ ctitle = <<>> /\ cbody = <<>> /\ cbody2 = <<>>
    /\ cimpl = "none" /\ category = "" /\ category2 = ""

Categorized(name, c1, c2) ==
    /\ cimpl = "none"
    /\ cimpl' = name /\ category' = c1 /\ category2' = c2
    /\ UNCHANGED <<ctitle, cbody, cbody2>>

\* SmartCategorizer.categorize(title, content) of bot_advanced
CategorizeAdvanced ==
    /\ Categorized("advanced", Adv_categorize(ctitle, cbody), Adv_categorize(ctitle, cbody2))
    /\ CatFrame

\* SuperAdvancedBot.categorize_article(title, content)
CategorizeSuper ==
    /\ Categorized("super", Sup_categorize_article(ctitle, cbody),
                   Sup_categorize_article(ctitle, cbody2))
    /\ CatFrame

\* MegaAdvancedBot.categorize_article(title, content)
CategorizeMega ==
    /\ Categorized("mega", Mega_categorize_article(ctitle, cbody),
                   Mega_categorize_article(ctitle, cbody2))
    /\ CatFrame

\* OptimizedReadLaterBot.detect_category(title, text)
DetectCategoryOptimized ==
    /\ Categorized("optimized", Opt_detect_category(ctitle, cbody),
                   Opt_detect_category(ctitle, cbody2))
    /\ CatFrame

\* ReadLaterBot.detect_category(title, text) of bot.py
DetectCategoryBot ==
    /\ Categorized("bot", Bot_detect_category(ctitle, cbody),
                   Bot_detect_category(ctitle, cbody2))
    /\ CatFrame

CatNext ==
    \/ CategorizeAdvanced
    \/ CategorizeSuper
    \/ CategorizeMega
    \/ DetectCategoryOptimized
    \/ DetectCategoryBot

-----------------------------------------------------------------------------
(* Language detection.  A character is its code point.                     *)

MaxSample == 3     \* characters of a sample

\* re.compile(r'[\u0590-\u05FF]'), re.compile(r'[\u0600-\u06FF]')
hebrew_pattern(c) == 1424 <= c /\ c <= 1535
arabic_pattern(c) == 1536 <= c /\ c <= 1791

\* pattern.search(text)
Search(pattern(_), t) == \E i \in 1..Len(t) : pattern(t[i])

\* a variant that tests the Arabic range first
Var_arabic_first(t) ==
    IF Search(arabic_pattern, t) THEN "ar"
    ELSE IF Search(hebrew_pattern, t) THEN "he"
    ELSE "en"

\* ContentExtractor._detect_language(text) of bot_optimized
Opt_detect_language(t) ==
    IF Search(hebrew_pattern, t) THEN "he"
    ELSE IF Search(arabic_pattern, t) THEN "ar"
    ELSE "en"

\* SmartContentExtractor._detect_language(text) of bot_advanced
Adv_detect_language(t) ==
    IF Search(hebrew_pattern, t) THEN "he"
    ELSE IF Search(arabic_pattern, t) THEN "ar"
    ELSE "en"

\* a blank, a Latin letter, and the code points at and next to the ends of the
\* two ranges
CodePoints == { 32, 97, 1423, 1424, 1535, 1536, 1791, 1792 }

Samples == UNION { [1..n -> CodePoints] : n \in 0..MaxSample }

LangInit == sample \in Samples /\ detector = "none" /\ language = ""

LangIdle == sample = <<>> /\ detector = "none" /\ language = ""

DetectOptimized ==
    /\ detector = "none"
    /\ detector' = "optimized"
    /\ language' = Opt_detect_language(sample)
    /\ UNCHANGED sample
    /\ LangFrame

DetectAdvanced ==
    /\ detector = "none"
    /\ detector' = "advanced"
    /\ language' = Adv_detect_language(sample)
    /\ UNCHANGED sample
    /\ LangFrame

LangNext == DetectOptimized \/ DetectAdvanced

-----------------------------------------------------------------------------
(* The URL caches.  bot_mega_advanced and bot_super_advanced keep a dict of  *)
(* {'data', 'timestamp'} under the md5 of the URL; bot_optimized keeps a    *)
(* cachetools TTLCache (library code: an entry is seen until its ttl is     *)
(* over, setting a key first drops the entries whose ttl is over and then,  *)
(* at maxsize, the entry set longest ago).  A URL is a number and stands for *)
(* its own md5.  The result of the n-th extraction run is the number n; the  *)
(* results the cache starts with are the numbers -1, -2, ...                *)

Mega_cache_max_size  == 100
Mega_cache_expiry    == 3600
Super_cache_max_size == 50
Super_cache_expiry   == 3600
Opt_url_cache_maxsize == 500
Opt_url_cache_ttl     == 7200

cache_max_size(b) ==
    CASE b = "mega"  -> Mega_cache_max_size
      [] b = "super" -> Super_cache_max_size
      [] OTHER       -> Opt_url_cache_maxsize

cache_expiry(b) ==
    CASE b = "mega"  -> Mega_cache_expiry
      [] b = "super" -> Super_cache_expiry
      [] OTHER       -> Opt_url_cache_ttl

\* the model's clock moves in steps of half an hour, up to MaxTicks of them
MaxTicks       == 4
MaxExtractions == 3
MaxNewUrls     == 2
TickSeconds    == Mega_cache_expiry \div 2
MaxWall        == MaxTicks * TickSeconds

\* a variant of the test below that still takes an entry of exactly cache_expiry seconds
Var_fresh_inclusive(e, t, expiry) == t - e.timestamp <= expiry

\* time.time() - cache_data['timestamp'] < self.cache_expiry
Fresh(e, t, expiry) == t - e.timestamp < expiry

\* the place of a URL in the dict, 0 when it has none
Lookup(c, u) ==
    IF \E i \in 1..Len(c) : c[i].url = u
    THEN CHOOSE i \in 1..Len(c) : c[i].url = u
    ELSE 0

\* a variant of the choice below: the entry that entered the dict first
Var_oldest_is_first(c) == 1

\* min(self.url_cache.keys(), key=lambda k: self.url_cache[k]['timestamp']): the
\* first key, in dict order, of the smallest timestamp
oldest_key(c) ==
    CHOOSE i \in 1..Len(c) :
        \A j \in 1..Len(c) :
            \/ c[i].timestamp < c[j].timestamp
            \/ (c[i].timestamp = c[j].timestamp /\ i <= j)

\* self.url_cache[url_hash] = {...}: a key the dict has keeps its place
SetItem(c, u, d, t) ==
    LET e == [url |-> u, data |-> d, timestamp |-> t]
        i == Lookup(c, u)
    IN  IF i = 0 THEN Append(c, e) ELSE [c EXCEPT ![i] = e]

\* bot_mega_advanced.py:267-277, bot_super_advanced.py:205-214
Dict_store(c, u, d, t, maxsize) ==
    SetItem(IF Len(c) >= maxsize THEN RemoveAt(c, oldest_key(c)) ELSE c, u, d, t)

\* TTLCache.__setitem__ at time t
TTL_store(c, u, d, t, maxsize, ttl) ==
    LET live    == SelectSeq(c, LAMBDA e : Fresh(e, t, ttl) /\ e.url # u)
        room    == IF Len(live) >= maxsize THEN Tail(live) ELSE live
    IN  Append(room, [url |-> u, data |-> d, timestamp |-> t])

NoReturn == [url |-> 0, data |-> 0, via |-> "none", at |-> 0]

\* the requests of the model: an entry the cache started with and URLs it has not seen
UrlsAsked(b) == {1} \cup (cache_max_size(b) .. cache_max_size(b) + MaxNewUrls - 1)

\* the cache after fill extractions that succeeded at time 0
Filled(fill) == [i \in 1..fill |-> [url |-> i, data |-> 0 - i, timestamp |-> 0]]

UcInit ==
    /\ ubot \in {"mega", "super", "optimized"}
    /\ wall = 0
    /\ \E fill \in {0, cache_max_size(ubot) - 1} :
          /\ ubot = "optimized" => fill = 0
          /\ ucache = Filled(fill)
    /\ ulog = <<>>
    /\ ureturn = NoReturn

UcIdle ==
    ubot = "none" /\ wall = 0 /\ ucache = <<>> /\ ulog = <<>> /\ ureturn = NoReturn

\* time passes between two calls
Pass ==
    /\ ubot # "none"
    /\ wall + TickSeconds <= MaxWall
    /\ wall' = wall + TickSeconds
    /\ UNCHANGED <<ubot, ucache, ulog, ureturn>>
    /\ UcFrame

\* extract_content(url) / extract_article_content(url): ok says whether the
\* extraction methods give a result, dt how long they take
ExtractContent(u, ok, dt) ==
    /\ ubot # "none"
    /\ LET i   == Lookup(ucache, u)
           hit == i # 0 /\ Fresh(ucache[i], wall, cache_expiry(ubot))
       IN  IF hit
           THEN /\ ureturn' = [url |-> u, data |-> ucache[i].data, via |-> "cache", at |-> wall]
                /\ UNCHANGED <<ubot, wall, ucache, ulog>>
           ELSE /\ Len(ulog) < MaxExtractions
                /\ wall + dt <= MaxWall
                /\ wall' = wall + dt
                /\ ulog' = Append(ulog, [url |-> u, ok |-> ok, at |-> wall'])
                /\ IF ok
                   THEN /\ ucache' =
                             IF ubot = "optimized"
                             THEN TTL_store(ucache, u, Len(ulog'), wall',
                                            cache_max_size(ubot), cache_expiry(ubot))
                             ELSE Dict_store(ucache, u, Len(ulog'), wall',
                                             cache_max_size(ubot))
                        /\ ureturn' = [url |-> u, data |-> Len(ulog'), via |-> "fresh",
                                        at |-> wall']
                   ELSE /\ ucache' = ucache
                        /\ ureturn' = [url |-> u, data |-> 0, via |-> "failed", at |-> wall']
                /\ UNCHANGED ubot
    /\ UcFrame

Extract ==
    \E u \in UrlsAsked(ubot), ok \in BOOLEAN, dt \in {0, TickSeconds} :
        ExtractContent(u, ok, dt)

UcNext == Pass \/ Extract

-----------------------------------------------------------------------------
(* bot_optimized: the article methods of OptimizedReadLaterBot as coroutines. *)
(* A call runs until it awaits execute_query; the statement is carried out  *)
(* by the connection, and the call goes on when the event loop resumes it.  *)
(* Other calls run in between.  The list calls here are all made with the   *)
(* same category, limit and offset, so a cache key stands for its user.     *)

MaxTasks == 2

NoCall == [name |-> "none", user |-> 0, id |-> 0, list |-> {}, absent |-> {}, present |-> {}]

Task(kind, u, id, pc, rows, absent, present) ==
    [kind |-> kind, user |-> u, id |-> id, pc |-> pc, rows |-> rows,
     absent |-> absent, present |-> present]

OsInit ==
    /\ otable = {} /\ onext_id = 1 /\ list_cache = {} /\ tasks = {}
    /\ olast = [NoCall EXCEPT !.name = "start"] /\ struck = {} /\ gone = {}

OsIdle ==
    /\ otable = {} /\ onext_id = 1 /\ list_cache = {} /\ tasks = {}
    /\ olast = NoCall /\ struck = {} /\ gone = {}

OsRunning == olast.name # "none"

IdsOf(rows) == { r.id : r \in rows }

\* SELECT * FROM articles WHERE user_id = ? ORDER BY date_saved DESC LIMIT ? OFFSET ?,
\* the limit above the number of rows of the model
Opt_select_user(rows, u) == { r \in rows : r.user_id = u }

\* DELETE FROM articles WHERE id = ? AND user_id = ?
Opt_delete_where(rows, id, u) == { r \in rows : r.id = id /\ r.user_id = u }

\* _clear_user_cache(user_id): the keys that hold "user_<user_id>"
clear_user_cache(cache, u) == { e \in cache : e.user # u }

\* self.article_cache[cache_key] = articles
ListCachePut(cache, u, rows) == { e \in cache : e.user # u } \cup { [user |-> u, list |-> rows] }

\* save_article(user_id, ...): the INSERT and its commit; the method touches no cache
Opt_save_article(u) ==
    /\ OsRunning
    /\ onext_id <= MaxRows
    /\ otable' = otable \cup { [id |-> onext_id, user_id |-> u] }
    /\ onext_id' = onext_id + 1
    /\ olast' = [NoCall EXCEPT !.name = "save_article", !.user = u, !.id = onext_id]
    /\ UNCHANGED <<list_cache, tasks, struck, gone>>
    /\ OsFrame

\* get_user_articles(user_id) up to its await: a cached list is returned at once
GetCall(u) ==
    /\ OsRunning
    /\ IF \E e \in list_cache : e.user = u
       THEN /\ olast' = [name |-> "get_user_articles", user |-> u, id |-> 0,
                         list |-> (CHOOSE e \in list_cache : e.user = u).list,
                         absent |-> gone,
                         present |-> IdsOf(Opt_select_user(otable, u)) \ struck]
            /\ UNCHANGED tasks
       ELSE /\ Cardinality(tasks) < MaxTasks
            /\ tasks' = tasks \cup
                   { Task("get", u, 0, "query", {}, gone,
                          IdsOf(Opt_select_user(otable, u)) \ struck) }
            /\ UNCHANGED olast
    /\ UNCHANGED <<otable, onext_id, list_cache, struck, gone>>
    /\ OsFrame

\* the SELECT of a suspended get_user_articles is carried out
GetRead(t) ==
    /\ t \in tasks /\ t.kind = "get" /\ t.pc = "query"
    /\ tasks' = (tasks \ {t}) \cup
                  { [t EXCEPT !.pc = "store", !.rows = Opt_select_user(otable, t.user)] }
    /\ UNCHANGED <<otable, onext_id, list_cache, olast, struck, gone>>
    /\ OsFrame

\* get_user_articles resumes: it caches the rows it read and returns them
GetStore(t) ==
    /\ t \in tasks /\ t.kind = "get" /\ t.pc = "store"
    /\ list_cache' = ListCachePut(list_cache, t.user, t.rows)
    /\ olast' = [name |-> "get_user_articles", user |-> t.user, id |-> 0,
                 list |-> t.rows, absent |-> t.absent, present |-> t.present]
    /\ tasks' = tasks \ {t}
    /\ UNCHANGED <<otable, onext_id, struck, gone>>
    /\ OsFrame

\* delete_article(article_id, user_id) up to its await
DeleteCall(id, u) ==
    /\ OsRunning
    /\ Cardinality(tasks) < MaxTasks
    /\ tasks' = tasks \cup { Task("delete", u, id, "query", {}, {}, {}) }
    /\ struck' = struck \cup IdsOf(Opt_delete_where(otable, id, u))
    /\ UNCHANGED <<otable, onext_id, list_cache, olast, gone>>
    /\ OsFrame

\* the DELETE of a suspended delete_article is carried out and committed
DeleteCommit(t) ==
    /\ t \in tasks /\ t.kind = "delete" /\ t.pc = "query"
    /\ otable' = otable \ Opt_delete_where(otable, t.id, t.user)
    /\ tasks' = (tasks \ {t}) \cup
                  { [t EXCEPT !.pc = "clear", !.rows = Opt_delete_where(otable, t.id, t.user)] }
    /\ UNCHANGED <<onext_id, list_cache, olast, struck, gone>>
    /\ OsFrame

\* delete_article resumes: it clears the user's cache entries and returns
DeleteClear(t) ==
    /\ t \in tasks /\ t.kind = "delete" /\ t.pc = "clear"
    /\ list_cache' = clear_user_cache(list_cache, t.user)
    /\ gone' = gone \cup IdsOf(t.rows)
    /\ olast' = [NoCall EXCEPT !.name = "delete_article", !.user = t.user, !.id = t.id]
    /\ tasks' = tasks \ {t}
    /\ UNCHANGED <<otable, onext_id, struck>>
    /\ OsFrame

\* article_cache is a TTLCache: an entry whose ttl is over is there no more
ListExpire(e) ==
    /\ e \in list_cache
    /\ list_cache' = list_cache \ {e}
    /\ UNCHANGED <<otable, onext_id, tasks, olast, struck, gone>>
    /\ OsFrame

OsNext ==
    \/ \E u \in Users : Opt_save_article(u)
    \/ \E u \in Users : GetCall(u)
    \/ \E t \in tasks : GetRead(t)
    \/ \E t \in tasks : GetStore(t)
    \/ \E id \in 1..MaxRows, u \in Users : DeleteCall(id, u)
    \/ \E t \in tasks : DeleteCommit(t)
    \/ \E t \in tasks : DeleteClear(t)
    \/ \E e \in list_cache : ListExpire(e)

-----------------------------------------------------------------------------
(* bot_optimized: DatabaseManager.  initialize, execute_query and close are *)
(* coroutines; each runs until it awaits and goes on when the event loop    *)
(* resumes it.  get_connection, return_connection and close take pool_lock;  *)
(* initialize does not.  A connection is a number; the connections are      *)
(* alike, so the one a call takes or closes is the one of the largest       *)
(* number, and a new connection gets the smallest number no open one has.   *)

pool_size  == 10
MaxInits   == 2
MaxQueries == 1

PTask(kind, pc, n, conn) == [kind |-> kind, pc |-> pc, n |-> n, conn |-> conn]

PoolInit ==
    /\ connection_pool = {} /\ initialized = FALSE /\ pool_lock = "free"
    /\ opened = {} /\ ptasks = {} /\ pstage = "open"

PoolIdle ==
    /\ connection_pool = {} /\ initialized = FALSE /\ pool_lock = "free"
    /\ opened = {} /\ ptasks = {} /\ pstage = "none"

MaxOf(cs) == CHOOSE c \in cs : \A d \in cs : d <= c

\* await aiosqlite.connect(self.db_path)
NewConnection == CHOOSE c \in 1..(Cardinality(opened) + 1) : c \notin opened

TasksOf(kind) == { t \in ptasks : t.kind = kind }

\* initialize() up to its first await: nothing to do once _initialized is set
InitializeCall ==
    /\ pstage = "open"
    /\ ~initialized
    /\ Cardinality(TasksOf("init")) < MaxInits
    /\ ptasks' = ptasks \cup { PTask("init", "setup", Cardinality(TasksOf("init")), 0) }
    /\ UNCHANGED <<connection_pool, initialized, pool_lock, opened, pstage>>
    /\ PoolFrame

\* the tables and indexes are made on a connection of their own, closed at the end
InitializeSetup(t) ==
    /\ t \in ptasks /\ t.kind = "init" /\ t.pc = "setup"
    /\ ptasks' = (ptasks \ {t}) \cup { [t EXCEPT !.pc = "fill", !.conn = 0] }
    /\ UNCHANGED <<connection_pool, initialized, pool_lock, opened, pstage>>
    /\ PoolFrame

\* one round of for _ in range(self.pool_size); t.conn counts the rounds done.
\* After the last round _initialized is set.
InitializeConnect(t) ==
    /\ t \in ptasks /\ t.kind = "init" /\ t.pc = "fill"
    /\ opened' = opened \cup {NewConnection}
    /\ connection_pool' = connection_pool \cup {NewConnection}
    /\ IF t.conn + 1 = pool_size
       THEN /\ ptasks' = ptasks \ {t}
            /\ initialized' = TRUE
       ELSE /\ ptasks' = (ptasks \ {t}) \cup { [t EXCEPT !.conn = @ + 1] }
            /\ UNCHANGED initialized
    /\ UNCHANGED <<pool_lock, pstage>>
    /\ PoolFrame

\* execute_query up to the statement: get_connection under pool_lock
QueryCall ==
    /\ pstage = "open"
    /\ pool_lock = "free"
    /\ Cardinality(TasksOf("query")) < MaxQueries
    /\ LET c == IF connection_pool # {} THEN MaxOf(connection_pool) ELSE NewConnection
       IN  /\ connection_pool' = connection_pool \ {c}
           /\ opened' = opened \cup {c}
           /\ ptasks' = ptasks \cup { PTask("query", "run", 0, c) }
    /\ UNCHANGED <<initialized, pool_lock, pstage>>
    /\ PoolFrame

\* the finally of execute_query: return_connection under pool_lock
QueryReturn(t) ==
    /\ t \in ptasks /\ t.kind = "query"
    /\ pool_lock = "free"
    /\ IF Cardinality(connection_pool) < pool_size
       THEN connection_pool' = connection_pool \cup {t.conn} /\ UNCHANGED opened
       ELSE opened' = opened \ {t.conn} /\ UNCHANGED connection_pool
    /\ ptasks' = ptasks \ {t}
    /\ UNCHANGED <<initialized, pool_lock, pstage>>
    /\ PoolFrame

\* close() takes pool_lock
CloseCall ==
    /\ pstage = "open"
    /\ pool_lock = "free"
    /\ pool_lock' = "close"
    /\ pstage' = "closing"
    /\ ptasks' = ptasks \cup { PTask("close", "closing", 0, 0) }
    /\ UNCHANGED <<connection_pool, initialized, opened>>
    /\ PoolFrame

\* await conn.close() for one connection of the pool
CloseConnection(t) ==
    /\ t \in ptasks /\ t.kind = "close"
    /\ connection_pool \cap opened # {}
    /\ opened' = opened \ { MaxOf(connection_pool \cap opened) }
    /\ UNCHANGED <<connection_pool, initialized, pool_lock, ptasks, pstage>>
    /\ PoolFrame

\* the loop is over: self.connection_pool.clear(), and the lock is released
CloseDone(t) ==
    /\ t \in ptasks /\ t.kind = "close"
    /\ connection_pool \cap opened = {}
    /\ connection_pool' = {}
    /\ pool_lock' = "free"
    /\ pstage' = "closed"
    /\ ptasks' = ptasks \ {t}
    /\ UNCHANGED <<initialized, opened>>
    /\ PoolFrame

PoolNext ==
    \/ InitializeCall
    \/ \E t \in ptasks : InitializeSetup(t)
    \/ \E t \in ptasks : InitializeConnect(t)
    \/ QueryCall
    \/ \E t \in ptasks : QueryReturn(t)
    \/ CloseCall
    \/ \E t \in ptasks : CloseConnection(t)
    \/ \E t \in ptasks : CloseDone(t)

-----------------------------------------------------------------------------
(* bot.py: the dialog state kept in user_states, written by handle_message  *)
(* and read by the process_url_ branch of button_callback, and the dispatch *)
(* of callback data.  Callback data is given by its fields, data.split("_"); *)
(* a prefix that ends in "_" is the fields before it, and data starts with  *)
(* it when it has these fields and at least one more.  A message text is    *)
(* the sequence of its words; the words "u1", "u2", "u3" are links.         *)

MaxHandled == 2

StateAbsent    == [kind |-> "absent",     urls |-> <<>>]
StateNone      == [kind |-> "None",       urls |-> <<>>]
StateSearching == [kind |-> "searching",  urls |-> <<>>]
StateChoose(urls) == [kind |-> "choose_url", urls |-> urls]

NoHandler ==
    [handler |-> "none", user |-> 0, fields |-> <<>>, branch |-> "", reply |-> "",
     raised |-> FALSE]

DlgInit ==
    /\ user_states = [u \in Users |-> StateAbsent]
    /\ handled = <<>>
    /\ dlast = [NoHandler EXCEPT !.handler = "start"]

DlgIdle ==
    /\ user_states = [u \in Users |-> StateAbsent]
    /\ handled = <<>>
    /\ dlast = NoHandler

DlgRunning == dlast.handler # "none"

\* extract_urls_from_text: re.findall of the URL pattern
extract_urls_from_text(words) == SelectSeq(words, LAMBDA w : w \in {"u1", "u2", "u3"})

\* int(s): the value, or -1 where int raises ValueError
IntOf(f) ==
    CASE f = "0" -> 0 [] f = "1" -> 1 [] f = "2" -> 2 [] f = "3" -> 3 [] OTHER -> -1

\* data.startswith(prefix), prefix given by its fields
StartsWith(fields, prefix) ==
    Len(fields) > Len(prefix) /\ SubSeq(fields, 1, Len(prefix)) = prefix

\* the if / elif chain of button_callback, in its order
Branches ==
    << [name |-> "process_url_",       prefix |-> << "process", "url" >>],
       [name |-> "view_article_",      prefix |-> << "view", "article" >>],
       [name |-> "view_article_list_", prefix |-> << "view", "article", "list" >>],
       [name |-> "show_full_",         prefix |-> << "show", "full" >>],
       [name |-> "delete_",            prefix |-> << "delete" >>] >>

\* the branch that runs: the first whose test holds
Dispatch(fields) ==
    LET hits == { n \in 1..Len(Branches) : StartsWith(fields, Branches[n].prefix) }
    IN  IF hits = {} THEN "other"
        ELSE Branches[CHOOSE n \in hits : \A m \in hits : n <= m].name

\* the articles table the view branches read: article 1 of user 1, article 2 of user 2
DlgArticles == { [id |-> 1, user_id |-> 1], [id |-> 2, user_id |-> 2] }

\* SELECT * FROM articles WHERE id = ? AND user_id = ?, and the answer
ViewReply(id, usr) ==
    IF \E r \in DlgArticles : r.id = id /\ r.user_id = usr THEN "article" ELSE "not_found"

\* handle_message, text the search button of the keyboard
SearchButton(usr) ==
    /\ DlgRunning
    /\ user_states' = [user_states EXCEPT ![usr] = StateSearching]
    /\ dlast' = [NoHandler EXCEPT !.handler = "handle_message", !.user = usr,
                                  !.branch = "search_button", !.reply = "search_mode"]
    /\ UNCHANGED handled
    /\ DlgFrame

\* handle_message, any other text
TextMessage(usr, words) ==
    /\ DlgRunning
    /\ LET urls == extract_urls_from_text(words)
           done(branch, answer) ==
               dlast' = [NoHandler EXCEPT !.handler = "handle_message", !.user = usr,
                                          !.fields = words, !.branch = branch,
                                          !.reply = answer]
       IN  IF user_states[usr].kind = "searching"
           THEN /\ user_states' = [user_states EXCEPT ![usr] = StateNone]
                /\ done("search", "results")
                /\ UNCHANGED handled
           ELSE IF Len(urls) = 1
           THEN /\ Len(handled) < MaxHandled
                /\ handled' = Append(handled, urls[1])
                /\ done("one_url", "processing")
                /\ UNCHANGED user_states
           ELSE IF Len(urls) > 1
           THEN /\ user_states' = [user_states EXCEPT ![usr] = StateChoose(urls)]
                /\ done("many_urls", "choose")
                /\ UNCHANGED handled
           ELSE /\ done("no_url", "not_understood")
                /\ UNCHANGED <<user_states, handled>>
    /\ DlgFrame

\* button_callback(update, context) with query.data = "_".join(fields), pressed by usr
ButtonCallback(usr, fields) ==
    /\ DlgRunning
    /\ LET branch == Dispatch(fields)
           st     == user_states[usr]
           done(answer, exc) ==
               dlast' = [handler |-> "button_callback", user |-> usr, fields |-> fields,
                         branch |-> branch, reply |-> answer, raised |-> exc]
       IN  CASE branch = "process_url_" ->
                  LET url_index == IntOf(fields[3])
                  IN  IF url_index < 0
                      THEN done("ValueError", TRUE) /\ UNCHANGED <<user_states, handled>>
                      ELSE IF st.kind = "absent"
                      THEN done("expired", FALSE) /\ UNCHANGED <<user_states, handled>>
                      ELSE IF st.kind \in {"None", "searching"}
                      \* None and str have no get
                      THEN done("AttributeError", TRUE) /\ UNCHANGED <<user_states, handled>>
                      ELSE IF url_index < Len(st.urls)
                      THEN /\ Len(handled) < MaxHandled
                           /\ user_states' = [user_states EXCEPT ![usr] = StateNone]
                           /\ handled' = Append(handled, st.urls[url_index + 1])
                           /\ done("processing", FALSE)
                      ELSE done("invalid_link", FALSE) /\ UNCHANGED <<user_states, handled>>
            [] branch = "view_article_" ->
                  /\ IF IntOf(fields[3]) < 0
                     THEN done("ValueError", TRUE)
                     ELSE done(ViewReply(IntOf(fields[3]), usr), FALSE)
                  /\ UNCHANGED <<user_states, handled>>
            [] branch = "view_article_list_" ->
                  /\ IF IntOf(fields[4]) < 0
                     THEN done("ValueError", TRUE)
                     ELSE done(ViewReply(IntOf(fields[4]), usr), FALSE)
                  /\ UNCHANGED <<user_states, handled>>
            [] OTHER ->
                  /\ done("other", FALSE)
                  /\ UNCHANGED <<user_states, handled>>
    /\ DlgFrame

\* the texts sent: no link, one link, two links, three links
DlgTexts ==
    { << "w" >>, << "w", "u1" >>, << "u1", "w", "u2" >>, << "u1", "u2", "u3" >> }

\* the callback data the keyboards of bot.py carry
DlgButtons ==
    { << "process", "url", "0" >>, << "process", "url", "1" >>, << "process", "url", "2" >>,
      << "view", "article", "1" >>, << "view", "article", "2" >>,
      << "view", "article", "list", "1" >>, << "view", "article", "list", "2" >>,
      << "search" >> }

DlgNext ==
    \/ \E u \in Users : SearchButton(u)
    \/ \E u \in Users, w \in DlgTexts : TextMessage(u, w)
    \/ \E u \in Users, f \in DlgButtons : ButtonCallback(u, f)

-----------------------------------------------------------------------------
vars == << baseVars, moreVars >>

BaseIdle ==
    SumIdle /\ ExtIdle /\ StoreIdle /\ FetchIdle /\ CacheIdle /\ CatIdle /\ LangIdle
MoreIdle == UcIdle /\ OsIdle /\ PoolIdle /\ DlgIdle

\* the summarizers alone
InitSummarize ==
    SumInit /\ ExtIdle /\ StoreIdle /\ FetchIdle /\ CacheIdle /\ CatIdle /\ LangIdle /\ MoreIdle
SpecSummarize == InitSummarize /\ [][SumNext]_vars

\* the extractors
InitExtract ==
    ExtInit /\ SumIdle /\ StoreIdle /\ FetchIdle /\ CacheIdle /\ CatIdle /\ LangIdle /\ MoreIdle
SpecExtract == InitExtract /\ [][ExtNext]_vars

\* the record store
InitStore ==
    StoreInit /\ SumIdle /\ ExtIdle /\ FetchIdle /\ CacheIdle /\ CatIdle /\ LangIdle /\ MoreIdle
SpecStore == InitStore /\ [][StoreNext]_vars

\* the URL handler of bot_optimized
InitFetch ==
    FetchInit /\ SumIdle /\ ExtIdle /\ StoreIdle /\ CacheIdle /\ CatIdle /\ LangIdle /\ MoreIdle
SpecFetch == InitFetch /\ [][FetchNext]_vars

\* the URL handlers of bot_optimized and bot.py
InitHandlers ==
    HandlersInit /\ SumIdle /\ ExtIdle /\ StoreIdle /\ CacheIdle /\ CatIdle /\ LangIdle /\ MoreIdle
SpecHandlers == InitHandlers /\ [][HandlersNext]_vars

\* summarize_text and its cache
InitSummaryCache ==
    CacheInit /\ SumIdle /\ ExtIdle /\ StoreIdle /\ FetchIdle /\ CatIdle /\ LangIdle /\ MoreIdle
SpecSummaryCache == InitSummaryCache /\ [][CacheNext]_vars

\* the categorizers
InitCategorize ==
    CatInit /\ SumIdle /\ ExtIdle /\ StoreIdle /\ FetchIdle /\ CacheIdle /\ LangIdle /\ MoreIdle
SpecCategorize == InitCategorize /\ [][CatNext]_vars

\* the URL caches
InitUrlCache == UcInit /\ BaseIdle /\ OsIdle /\ PoolIdle /\ DlgIdle
SpecUrlCache == InitUrlCache /\ [][UcNext]_vars

\* the article methods of bot_optimized
InitOptStore == OsInit /\ BaseIdle /\ UcIdle /\ PoolIdle /\ DlgIdle
SpecOptStore == InitOptStore /\ [][OsNext]_vars

\* the connection pool of bot_optimized
InitPool == PoolInit /\ BaseIdle /\ UcIdle /\ OsIdle /\ DlgIdle
SpecPool == InitPool /\ [][PoolNext]_vars

\* the dialog state and the callback dispatch of bot.py
InitDialog == DlgInit /\ BaseIdle /\ UcIdle /\ OsIdle /\ PoolIdle
SpecDialog == InitDialog /\ [][DlgNext]_vars

\* language detection
InitLanguage ==
    LangInit /\ SumIdle /\ ExtIdle /\ StoreIdle /\ FetchIdle /\ CacheIdle /\ CatIdle /\ MoreIdle
SpecLanguage == InitLanguage /\ [][LangNext]_vars

-----------------------------------------------------------------------------
(* Properties of the summarizers, checked under SpecSummarize              *)

Summarized == impl # "none"

Increasing(ps) == \A i, j \in 1..Len(ps) : i < j => ps[i] < ps[j]

\* C1: whatever the text and max_length, the summary returned by summarize is at
\* most max_length characters long, the truncation marker included, on every path.
C1_SummaryWithinMaxLength == Summarized => Len(summary) <= max_length

\* C2: in a summary built from selected sentences, the sentences stand in the order
\* in which they occur in the body, whatever their scores.
C2_SummaryInBodyOrder ==
    (impl \in {"advanced", "bot"} /\ path \in {"scored", "truncated"}) => Increasing(order)

-----------------------------------------------------------------------------
(* Properties of the fetcher, checked under SpecFetch                      *)

\* extract_with_retry has returned
FetchOver == fpc \in {"returned", "done"}

\* requests were made and every one of them failed
AllFailed == requests # <<>> /\ \A i \in 1..Len(requests) : requests[i] \in Failures

\* C3: when every request of a fetch fails, exactly MAX_RETRIES requests are made;
\* the wait after failed attempt k is 2^k seconds for k = 0 .. MAX_RETRIES-2, and
\* there is no wait after the last attempt.
C3_RetriesAndBackoff ==
    /\ Len(sleeps) <= MAX_RETRIES - 1
    /\ \A i \in 1..Len(sleeps) : sleeps[i] = 2 ^ (i - 1)
    /\ (FetchOver /\ AllFailed) =>
           /\ Len(requests) = MAX_RETRIES
           /\ Len(sleeps) = MAX_RETRIES - 1

C3_Witness ==
    /\ fpc = "returned"
    /\ requests = << "timeout", "http500", "network" >>
    /\ sleeps = << 1, 2 >>

\* C10: when every attempt of a fetch fails, what the caller gets names the kind
\* of the last failure, so that a timeout, an HTTP status and a network error can
\* be told apart.
C10_FailureKindReported ==
    (FetchOver /\ AllFailed) =>
        /\ fetched.kind = "error"
        /\ fetched.error = requests[Len(requests)]

-----------------------------------------------------------------------------
(* Properties of the record store, checked under SpecStore                 *)

\* C4: get_user_articles(u) and search_articles(u, q) return only rows of user u,
\* and delete_article(id, u) removes no row of another user.
C4_ScopedByUser ==
    /\ op.name \in {"get_user_articles", "search_articles"} =>
           \A i \in 1..Len(result) : result[i].user_id = op.user
    /\ op.name = "delete_article" =>
           /\ \A r \in removed : r.user_id = op.user
           /\ \A r \in removed : r.id = op.id

\* a user asked to delete another user's article, and the article is still there
C4_Witness ==
    /\ op.name = "delete_article"
    /\ removed = {}
    /\ \E r \in articles : r.id = op.id /\ r.user_id # op.user

-----------------------------------------------------------------------------
(* Properties of the extractors, checked under SpecExtract                 *)

NonBlank(e) == TStrip(get_text(e)) # <<>>

\* the elements of the page, at both depths
Elems(pg) == { ElemAt(pg, Refs(pg)[n]) : n \in 1..Len(Refs(pg)) }

\* the tags bot_optimized and bot_advanced remove before they look for anything
NonContentTags == {"script", "style", "nav", "header", "footer", "aside", "iframe"}

\* the positions of the page's elements that are not inside a non-content tag
KeptRefs(pg) ==
    { n \in 1..Len(Refs(pg)) :
        /\ pg[Refs(pg)[n][1]].tag \notin NonContentTags
        /\ ElemAt(pg, Refs(pg)[n]).tag \notin NonContentTags }

\* the kept <p> elements whose stripped text is longer than 20 characters
LongParagraphs(pg) ==
    { n \in KeptRefs(pg) :
        /\ ElemAt(pg, Refs(pg)[n]).tag = "p"
        /\ TLen(TStrip(get_text(ElemAt(pg, Refs(pg)[n])))) > 20 }

RECURSIVE SumLen(_, _)
SumLen(pg, ns) ==
    IF ns = {} THEN 0
    ELSE LET n == CHOOSE n \in ns : TRUE
         IN  TLen(TStrip(get_text(ElemAt(pg, Refs(pg)[n])))) + SumLen(pg, ns \ {n})

\* the length of the long paragraphs joined by a separator of sep characters
JoinedLength(pg, sep) ==
    IF LongParagraphs(pg) = {} THEN 0
    ELSE SumLen(pg, LongParagraphs(pg)) + sep * (Cardinality(LongParagraphs(pg)) - 1)

ParagraphSeparator == IF extractor = "optimized" THEN 2 ELSE 1

\* an <h1> or <title> with text, outside the non-content tags
HasTitle(pg) ==
    \E n \in KeptRefs(pg) :
        ElemAt(pg, Refs(pg)[n]).tag \in {"h1", "title"} /\ NonBlank(ElemAt(pg, Refs(pg)[n]))

\* no element of the page has a title's tag or class with text
NoTitle(pg) ==
    \A e \in Elems(pg) :
        (e.tag \in {"h1", "title"} \/ e.cls \in {"headline", "title", "entry-title",
            "post-title", "article-title", "story-headline"}) => ~NonBlank(e)

ContainerSelectors ==
    IF extractor = "optimized" THEN Opt_content_selectors
    ELSE IF extractor = "advanced" THEN Adv_content_selectors
    ELSE Bot_content_selectors

\* no content-container selector matches an element of the page
NoContainer(pg) ==
    \A n \in 1..Len(ContainerSelectors) : select_one(pg, ContainerSelectors[n]) = NoElem

\* the text of every element a content-container selector matches is at most lim long
ContainersAtMost(pg, lim) ==
    \A n \in 1..Len(ContainerSelectors), m \in 1..Len(Refs(pg)) :
        RefMatches(ContainerSelectors[n], pg, Refs(pg)[m]) =>
            TLen(TStrip(get_text(ElemAt(pg, Refs(pg)[m])))) <= lim

\* all <p> elements, kept or not, whose text is at least minLen long
ParagraphsTotal(pg, minLen) ==
    TLen(TJoin(ParagraphTexts(pg, Refs(pg), 1, minLen - 1), S(1)))

IsArticle == article.kind = "article"

\* C5: when every matched content container holds text at or below the threshold
\* and the qualifying paragraphs do not reach it either, extraction returns no
\* article.
C5_NoArticleBelowThreshold ==
    /\ (extractor = "bot" /\ ContainersAtMost(page, BotContainerMin)
                          /\ ParagraphsTotal(page, BotParagraphMin) <= BotContainerMin)
           => ~IsArticle
    /\ (extractor = "optimized" /\ ContainersAtMost(page, OptContainerMin)
                                /\ ParagraphsTotal(page, OptParagraphMin + 1) <= OptFallbackMin)
           => ~IsArticle

\* C6: a returned article has a title of at most 200 characters and a body of at
\* most the configured maximum, the truncation marker included.
C6_TitleAndBodyBounded ==
    /\ (extractor = "optimized" /\ IsArticle) =>
           TLen(article.title) <= OptTitleMax /\ TLen(article.body) <= MAX_TEXT_LENGTH
    /\ (extractor = "advanced" /\ IsArticle) =>
           TLen(article.title) <= AdvTitleMax /\ TLen(article.body) <= AdvContentMax

\* the page has an <h1> with text and an <article> with at least 100 characters
HasHeadingAndArticle(pg) ==
    /\ \E e \in Elems(pg) : e.tag = "h1" /\ NonBlank(e)
    /\ \E e \in Elems(pg) : e.tag = "article" /\ TLen(get_text(e)) >= 100

\* C7: for a page with an <h1> with text and an <article> of at least 100
\* characters, extraction returns an article with a title and a body.
C7_HeadingAndArticleSucceed ==
    (extractor \in {"optimized", "advanced"} /\ HasHeadingAndArticle(page)) =>
        IsArticle /\ article.title # <<>> /\ article.body # <<>>

C9_NoTitleNoArticle ==
    (extractor \in {"optimized", "advanced"} /\ NoTitle(page)) => ~IsArticle

-----------------------------------------------------------------------------
(* Properties of the URL handlers of bot_optimized and bot.py, checked     *)
(* under SpecHandlers                                                      *)

\* the downloads of the request at hand, in order: what each ended in
Downloads ==
    IF prog = "bot" THEN [i \in 1..Len(fetches) |-> fetches[i].outcome] ELSE requests

\* C11: a request for a URL of a known bot-hostile domain makes no download and is
\* answered as blocked; a download answered with HTTP 403 is the last download of
\* its request (no retry, no other fetch strategy), and the request then ends as
\* blocked.
C11_BlockedNotRetried ==
    /\ \A i \in 1..Len(Downloads) : Downloads[i] = "http403" => i = Len(Downloads)
    /\ (fpc = "done" /\ IsBlocked(url)) => (Downloads = <<>> /\ reply = "blocked")
    /\ (fpc = "done" /\ Downloads # <<>> /\ Downloads[Len(Downloads)] = "http403")
           => reply \in {"blocked", "access_denied"}

\* a download answered with 200 from which nothing could be extracted
NoContentAt(i) ==
    IF prog = "bot"
    THEN \/ fetches[i].outcome = "ok_empty"
         \/ fetches[i].outcome = "ok200" /\ fetched.kind # "article"
    ELSE requests[i] = "ok200" /\ fetched.kind # "article"

\* C12: a download answered with 200 from which no title or body can be extracted
\* is the last download of its request, and the request ends without an article.
C12_NoContentNotRefetched ==
    \A i \in 1..Len(Downloads) :
        NoContentAt(i) => (i = Len(Downloads) /\ fetched.kind # "article")

-----------------------------------------------------------------------------
(* Properties of summarize_text and its cache, checked under               *)
(* SpecSummaryCache                                                        *)

\* C13: whatever summarize_text calls came before, the summary returned for a text
\* is the one the summarizer computes from that text: the same text gives the same
\* string after every history.
C13_SummaryHistoryFree ==
    calls > 0 => sresult = Opt_summarize(stext, DefaultMaxLength, FALSE).summary

-----------------------------------------------------------------------------
(* Further properties of the summarizers, checked under SpecSummarize      *)

\* no sentence of the text has a score above zero (bot_advanced)
Adv_NoPositiveScore ==
    LET sentences == Adv_split_sentences(text)
        scored    == Adv_score_sentences(sentences, text)
    IN  /\ Len(sentences) > AdvShortLimit
        /\ \A p \in 1..Len(scored) : scored[p].score = 0

\* C14: summarize of bot_advanced always returns, and when its processing raises
\* or no sentence scores above zero, what it returns is the first two raw
\* sentences of the text cut to max_length characters.
C14_FallbackTruncated ==
    impl = "advanced" =>
        /\ path # "none"
        /\ (fault \/ Adv_NoPositiveScore)
               => summary = Prefix(SplitFallback(text), max_length)

\* the sentences that are left after splitting
UsableSentences ==
    IF impl = "advanced" THEN Adv_split_sentences(text) ELSE Opt_split_sentences(text)

\* a body that is one sentence: characters that are no terminator, then the
\* terminators that end it, and no whitespace around it
OneSentence(t) ==
    /\ t # <<>> /\ Strip(t) = t
    /\ IsTerm(t[Len(t)]) /\ ~IsTerm(t[1])
    /\ \A i \in 1..(Len(t) - 1) : IsTerm(t[i]) => IsTerm(t[i + 1])
    /\ \A i \in 1..Len(t) : t[i] # "\n"

\* C17: when splitting leaves at most 2 usable sentences, summarize of
\* bot_advanced and bot_optimized returns these sentences joined, and a body that
\* is one sentence is returned as it is.
C17_ShortBodyReturned ==
    (impl \in {"advanced", "optimized"} /\ ~fault) =>
        /\ Len(UsableSentences) <= 2 => summary = Join(UsableSentences, DotSpace)
        /\ OneSentence(text) => summary = text

-----------------------------------------------------------------------------
(* Properties of the categorizers, checked under SpecCategorize            *)

\* the score of the n-th category for (ctitle, cbody): the weighted score the
\* categorizer computes; for detect_category, which computes none, the number of
\* the category's keywords in the text it looks at
CategoryScore(n) ==
    LET keywords == CategoryTable[n].keywords
    IN  IF cimpl = "advanced" THEN Adv_category_score(keywords, ctitle, cbody)
        ELSE IF cimpl \in {"super", "mega"} THEN Sup_category_score(keywords, ctitle, cbody)
        ELSE KeywordsIn(keywords, Lower(ctitle \o << " " >> \o cbody))

\* C15: the category returned has the highest score, and that score is above
\* zero; among categories with the highest score it is the one declared first;
\* when every score is zero it is the default category.
C15_HighestScoreFirstDeclared ==
    cimpl \in {"advanced", "super", "optimized"} =>
        IF \A n \in 1..Len(CategoryTable) : CategoryScore(n) = 0
        THEN category = DefaultCategory
        ELSE \E n \in 1..Len(CategoryTable) :
                 /\ category = CategoryTable[n].name
                 /\ CategoryScore(n) > 0
                 /\ \A m \in 1..Len(CategoryTable) : CategoryScore(m) <= CategoryScore(n)
                 /\ \A m \in 1..(n - 1) : CategoryScore(m) < CategoryScore(n)

\* C16: two bodies with the same words and different whitespace between them
\* (blanks, blank lines), under the same title, get the same category.
C16_WhitespaceInsensitive ==
    cimpl \in {"advanced", "mega"} => category = category2

-----------------------------------------------------------------------------
(* Sentence selection of bot_advanced and bot_mega_advanced, checked under *)
(* SpecSummarize                                                           *)

\* the summary was joined from sentences chosen by the selection loop
Selecting == impl \in {"advanced", "mega"} /\ path \in {"scored", "truncated"}

\* the scored sentences in descending score order
Ranked ==
    LET sentences == IF impl = "advanced" THEN Adv_split_sentences(text)
                     ELSE Mega_split_sentences(text)
    IN  SortByScoreDesc(IF impl = "advanced" THEN Adv_score_sentences(sentences, text)
                        ELSE Mega_score_sentences(sentences, text))

\* the sentence of rank i in the ranking r was selected
Taken(r, i) == \E n \in 1..Len(order) : order[n] = r[i].pos

\* the number and the total length of the selected sentences ranked above i
PickedAbove(r, i) == Cardinality({ j \in 1..(i - 1) : Taken(r, j) })

RECURSIVE LengthAbove(_, _)
LengthAbove(r, i) ==
    IF i <= 1 THEN 0
    ELSE LengthAbove(r, i - 1) + (IF Taken(r, i - 1) THEN Len(r[i - 1].s) ELSE 0)

Budget == max_length - SelectBuffer

\* C20 as stated: the selected sentences are the first ones of the ranking, the
\* walk ending at the first sentence that would exceed the budget or after three.
C20_StopsAtFirstMisfit ==
    Selecting =>
        LET r == Ranked
        IN  /\ Len(order) <= MaxSelected
            /\ \A i \in 1..Len(r) :
                   Taken(r, i) <=> /\ \A j \in 1..(i - 1) : Taken(r, j)
                                   /\ i <= MaxSelected
                                   /\ LengthAbove(r, i) + Len(r[i].s) <= Budget

\* C20 amended: the walk goes through the whole ranking and takes every sentence
\* that fits on top of those taken so far, passing over the ones that do not,
\* until three are taken; if no sentence is taken the top-ranked one is selected
\* alone; at most three sentences are selected.
C20_TakesEveryFit ==
    Selecting =>
        LET r == Ranked
        IN  /\ Len(order) <= MaxSelected
            /\ \/ \A i \in 1..Len(r) :
                      Taken(r, i) <=> /\ PickedAbove(r, i) < MaxSelected
                                      /\ LengthAbove(r, i) + Len(r[i].s) <= Budget
               \/ /\ \A i \in 1..Len(r) : Len(r[i].s) > Budget
                  /\ order = << r[1].pos >>

\* a sentence was passed over and a lower-ranked one taken
C20_Witness ==
    /\ Selecting
    /\ LET r == Ranked
       IN  \E i, j \in 1..Len(r) : i < j /\ ~Taken(r, i) /\ Taken(r, j)

-----------------------------------------------------------------------------
(* Language detection, checked under SpecLanguage                          *)

\* the Unicode blocks Hebrew (U+0590..U+05FF) and Arabic (U+0600..U+06FF)
HebrewBlock == 1424..1535
ArabicBlock == 1536..1791

HasHebrew == \E i \in 1..Len(sample) : sample[i] \in HebrewBlock
HasArabic == \E i \in 1..Len(sample) : sample[i] \in ArabicBlock

\* C19: the language returned is he when the sample holds a Hebrew code point,
\* whatever else it holds; otherwise ar when it holds an Arabic code point;
\* otherwise en.
C19_HebrewThenArabic ==
    detector # "none" =>
        language = IF HasHebrew THEN "he" ELSE IF HasArabic THEN "ar" ELSE "en"

\* a sample with a Latin letter, an Arabic and a Hebrew code point, in this order
C19_Witness ==
    /\ detector = "optimized"
    /\ sample = << 97, 1536, 1535 >>
    /\ language = "he"

-----------------------------------------------------------------------------
(* The store under the URL handlers, checked under SpecHandlers            *)

\* C18: a handler step inserts a row exactly when it ends a request for which
\* extraction returned an article, and then exactly one row, whether or not the
\* summarizer fell back; every other step, the end of a failed request included,
\* leaves the rows as they are.
C18_SavedOnlyWithArticle ==
    [][ IF fpc' = "done" /\ fetched'.kind = "article"
        THEN /\ articles \subseteq articles'
             /\ Cardinality(articles') = Cardinality(articles) + 1
             /\ reply' = "saved"
        ELSE articles' = articles ]_vars

\* a request of bot.py that failed after one whose article was saved with the
\* summary of the failed summarizer
C18_Witness ==
    /\ prog = "bot" /\ fpc = "done" /\ runs = 2
    /\ fetched.kind = "error" /\ reply = "no_content"
    /\ Cardinality(articles) = 1
    /\ \E r \in articles : r.summary = SummaryUnavailable

-----------------------------------------------------------------------------
(* The length limit of bot.py summarize_text, checked under SpecSummarize  *)

\* the important sentences of the text joined, as the summary was built from them
BotJoined ==
    LET sentences == StripLonger(Split("terms", clean_text_for_summary(text)),
                                 BotMinSentenceLen)
    IN  Join([n \in 1..Len(order) |-> sentences[order[n]]], DotSpace)

\* C21: when the joined summary is longer than max_length, the summary returned
\* is its first max_length characters up to and including their last '.', if the
\* 0-based index of that '.' is above 0.7 * max_length; otherwise it is the first
\* max_length characters followed by "...".
C21_CutAtLatePeriod ==
    (impl = "bot" /\ path = "truncated") =>
        LET c    == SubSeq(BotJoined, 1, max_length)
            dots == { i \in 1..Len(c) : c[i] = "." }
            last == CHOOSE i \in dots : \A j \in dots : j <= i
        IN  /\ Len(BotJoined) > max_length
            /\ IF dots # {} /\ 10 * (last - 1) > 7 * max_length
               THEN summary = SubSeq(c, 1, last)
               ELSE summary = c \o << ".", ".", "." >>

\* a summary cut at a period of the last 30% of the budget
C21_Witness ==
    /\ impl = "bot" /\ path = "truncated"
    /\ Len(summary) < max_length
    /\ 10 * (Len(summary) - 1) > 7 * max_length
    /\ summary[Len(summary)] = "."

-----------------------------------------------------------------------------
(* Properties of the URL caches, checked under SpecUrlCache                 *)

\* the extraction run a result comes from: its URL, its outcome, when it was stored
RunUrl(d)    == IF d < 0 THEN 0 - d ELSE ulog[d].url
RunOk(d)     == d < 0 \/ ulog[d].ok
RunStored(d) == IF d < 0 THEN 0 ELSE ulog[d].at

\* C22: a call returns a cached article only if it is the result of a successful
\* extraction of the same URL, stored less than cache_expiry seconds before the
\* call and still in the cache; a call for a URL whose entry is cache_expiry
\* seconds old or older runs a fresh extraction and does not return that entry;
\* a failed extraction leaves the cache as it was.
C22_CachedOnlyWhileFresh ==
    [][ ureturn' # ureturn =>
          LET r       == ureturn'
              expiry  == cache_expiry(ubot)
              entries == { i \in 1..Len(ucache) : ucache[i].url = r.url }
          IN  /\ r.via = "cache" =>
                    /\ \E i \in entries : ucache[i].data = r.data
                    /\ RunOk(r.data) /\ RunUrl(r.data) = r.url
                    /\ wall - RunStored(r.data) < expiry
              /\ (\A i \in entries : wall - RunStored(ucache[i].data) >= expiry) =>
                    /\ r.via \in {"fresh", "failed"}
                    /\ Len(ulog') = Len(ulog) + 1
                    /\ \A i \in entries : r.data # ucache[i].data
              /\ r.via = "failed" => ucache' = ucache
              /\ \A i \in 1..Len(ucache') :
                    ucache'[i].data < 0 \/ ulog'[ucache'[i].data].ok ]_vars

\* a cached article returned from an entry that replaced an expired one of its URL
C22_Witness ==
    /\ ureturn.via = "cache" /\ ureturn.data >= 2 /\ ureturn.at > RunStored(ureturn.data)
    /\ \E n \in 1..(ureturn.data - 1) :
          /\ ulog[n].url = ureturn.url /\ ulog[n].ok
          /\ ulog[ureturn.data].at - ulog[n].at >= cache_expiry(ubot)

\* C23: the URL cache never holds more than cache_max_size entries, 100 in
\* bot_mega_advanced and 50 in bot_super_advanced, and a successful result stored
\* into a full cache first removes an entry no other entry is older than.
C23_BoundedOldestEvicted ==
    /\ [](ubot = "mega"  => Len(ucache) <= 100)
    /\ [](ubot = "super" => Len(ucache) <= 50)
    /\ [][ (ubot \in {"mega", "super"} /\ ureturn'.via = "fresh" /\ ulog' # ulog
            /\ Len(ucache) >= cache_max_size(ubot)) =>
             \E i \in 1..Len(ucache) :
                /\ \A j \in 1..Len(ucache) : ucache[i].timestamp <= ucache[j].timestamp
                /\ \A k \in 1..Len(ucache') : ucache'[k].data # ucache[i].data
                /\ \A j \in 1..Len(ucache) :
                      (j # i /\ ucache[j].url # ureturn'.url) =>
                          \E k \in 1..Len(ucache') : ucache'[k] = ucache[j] ]_vars

\* a full cache whose first entry is not its oldest has just lost its oldest entry
C23_Witness ==
    /\ ubot \in {"mega", "super"} /\ ureturn.via = "fresh"
    /\ Len(ucache) = cache_max_size(ubot)
    /\ ucache[1].url = 1 /\ ucache[1].timestamp > 0
    /\ \A k \in 1..Len(ucache) : ucache[k].url # 2

-----------------------------------------------------------------------------
(* The category handlers of bot.py, checked under SpecStore                 *)

\* C24: /tag and the set_cat_ button leave every article of another user than the
\* requester as it was.
C24_OnlyOwnArticleRetagged ==
    [][ (op' # op /\ op'.name \in {"tag_command", "set_cat"}) =>
            \A r \in articles : r.user_id # op'.user => r \in articles' ]_vars

-----------------------------------------------------------------------------
(* Properties of the article methods of bot_optimized, checked under       *)
(* SpecOptStore                                                            *)

C26_SavedThenListed ==
    olast.name = "get_user_articles" => olast.present \subseteq IdsOf(olast.list)

-----------------------------------------------------------------------------
(* Properties of the connection pool of bot_optimized, checked under SpecPool *)

\* C27: the pool never holds more than pool_size connections.
C27_PoolWithinSize == Cardinality(connection_pool) <= 10

\* C28: once close() has returned and no call is in flight any more, the pool is
\* empty and no connection is open.
C28_ClosedLeavesNothingOpen ==
    (pstage = "closed" /\ ptasks = {}) => (connection_pool = {} /\ opened = {})

-----------------------------------------------------------------------------
(* Properties of the callbacks of bot.py, checked under SpecDialog          *)

\* C29: whatever user_states holds for the user, a process_url_<i> button press
\* raises nothing: it answers session expired or invalid link, or it hands
\* urls[i] to handle_url and resets the state.
C29_ProcessUrlNeverFails ==
    (dlast.handler = "button_callback" /\ dlast.branch = "process_url_") =>
        /\ ~dlast.raised
        /\ dlast.reply \in {"expired", "invalid_link", "processing"}
        /\ dlast.reply = "processing" =>
              (handled # <<>> /\ user_states[dlast.user] = StateNone)

\* C30: callback data view_article_list_<id> runs the list-view branch, which
\* reads <id> from the fourth field and answers with the presser's article.
C30_ListViewDispatched ==
    (dlast.handler = "button_callback" /\ Len(dlast.fields) = 4
        /\ SubSeq(dlast.fields, 1, 3) = << "view", "article", "list" >>) =>
        /\ dlast.branch = "view_article_list_"
        /\ ~dlast.raised
        /\ dlast.reply = ViewReply(IntOf(dlast.fields[4]), dlast.user)

=============================================================================
